---- MODULE Spec2Model ----
(***************************************************************************)
(* Fence Fighters Online: the authoritative simulation core               *)
(* (src/src/game/core.js, class GameCore) together with the websocket     *)
(* server's close handler (src/unnamed/part_001, http_ws.js).             *)
(*                                                                         *)
(* One action per entry point of the core: step, handleWeaponChoice,      *)
(* handleShopAction, handleReady, handleRestart, and the server's         *)
(* ws "close" callback, which writes to the core's players directly.      *)
(*                                                                         *)
(* Time is counted in units of 0.05 s, so that every timer constant of    *)
(* core.js is a whole number (30.0 s = 600).                               *)
(*                                                                         *)
(* What is not represented: positions, velocities and aim vectors.  Every  *)
(* geometric test of updatePlaying ("dist <= radius") is a choice made by  *)
(* \E, since spawn positions are random and the test can go either way.    *)
(* Player bullets, enemy bullets and potions are not kept as collections;  *)
(* their effect on players and monsters in a tick (a hit, a kill) is       *)
(* chosen by \E under the conditions the code puts on it.  Monsters, spawn *)
(* warnings, gold drops, hearts and grenades are kept as per-side counts,  *)
(* grenades with their common fuse timer (all grenades of a wave are       *)
(* created in the same startNewRound call and tick down together).         *)
(*                                                                         *)
(* That holds for the main specification.  The fragment specifications     *)
(* (SpecArena, SpecCombat, SpecWave, SpecPotions, SpecClock, SpecField)    *)
(* each keep on a variable of their own what the main one leaves to \E:    *)
(* positions, single bullets, single spawn warnings, the potions on the    *)
(* ground, the countdowns, and single projectiles, grenades and contacts.  *)
(***************************************************************************)
EXTENDS Integers, Sequences, FiniteSets, TLC

\* ----------------------------------------------------------------------
\* Bounds of the model
\* ----------------------------------------------------------------------
MaxRound == 2          \* the wave of this round is not run to its end
MaxFineTicks == 1      \* short ticks in one wave or one shop phase
MaxEvents == 0         \* hits taken, kills made and purchases queued in one match
MaxLateEvents == 1     \* the same, in the match that SpecLate takes up

\* ----------------------------------------------------------------------
\* Config (core.js lines 9-143), times in units of 0.05 s
\* ----------------------------------------------------------------------
PLAYER_MAX_HP == 100
HEART_HEAL == 25
GOLD_PER_PICKUP == 3
WAVE_TIME == 600
SHOP_TIME == 360
BASE_TARGET == 18
MAX_MONSTERS == 70
UPGRADE_COST == 10
SEND_BOSS_COST == 100
HEAL_COST == 8
HEAL_AMOUNT == 30
GRENADE_COST == 25
GRENADE_MAX_PER_ROUND == 2
GRENADE_FUSE == 24
GRENADE_RADIUS == 240
GRENADE_DAMAGE == 100
BULLET_LIFETIME == 34
SPITTER_PROJECTILE_DAMAGE == 10
CONTACT_DAMAGE == 12
TELEGRAPH == 40
MAX_WEAPON_LEVEL == 5

Sides == {"left", "right"}
PlayerIds == {1, 2}
MobTypes == {"slime", "fast", "tank", "spitter"}

\* The own keys of WEAPON_CONFIG.
WeaponTypes == {"knife", "axe", "spear", "bow"}

\* Property names every object literal inherits from Object.prototype; a
\* lookup WEAPON_CONFIG[k] or SEND_MOB_COST[k] with such a k yields a function
\* (truthy), and "k in obj" is true.
ObjectProtoKeys == {"toString", "constructor"}

\* SEND_MOB_COST / SEND_MOB_AMOUNT
SEND_MOB_COST(t) ==
  CASE t = "slime" -> 10 [] t = "fast" -> 14 [] t = "tank" -> 18 [] t = "spitter" -> 16

SEND_MOB_AMOUNT(t) ==
  CASE t = "slime" -> 4 [] t = "fast" -> 3 [] t = "tank" -> 2 [] t = "spitter" -> 2

\* ----------------------------------------------------------------------
\* Inputs
\* ----------------------------------------------------------------------
\* dt values passed to step: 0, a short tick (1 s) and a long one (18 s, the
\* length of a shop phase: two of them end a wave, one ends a shop phase).
FineDt == 20
LongDt == 360
DtSet == {0, FineDt, LongDt}

\* weaponType payloads of chooseWeapon: a weapon and an unknown name.
WeaponInputs == {"knife", "sword"}

\* A payload that is not text but truthy (a number, an object), and a falsy one
\* (null, undefined, "", 0).
NonText == "<non-text>"
Falsy == "<falsy>"

\* action payloads of shopAction
ShopInputs ==
  {"upgrade_weapon", "upgrade", "heal",
   "send:slime", "send_mobs",
   "send:dragon", "send:toString",
   "send_boss", "send_grenade", "start_round", "ready", NonText, Falsy}

\* Distance classes of a player from an exploding grenade: at the grenade, at
\* the edge of the radius, outside the radius.
GrenadeDistances == {0, GRENADE_RADIUS, GRENADE_RADIUS + 1}

VARIABLES
  state,            \* "WEAPON_SELECT" / "PLAYING" / "SHOP" / "GAME_OVER"
  winner,           \* "left" | "right" | "draw" | "null"
  round,
  waveLeft,
  shopLeft,
  players,          \* [PlayerIds -> Player]
  monsters,         \* [Sides -> number of monsters in this.monsters of that side]
  spawnWarnings,    \* [Sides -> number of warnings of that side]
  grenades,         \* [Sides -> number of grenades of that side]
  grenadeTimer,     \* the timer of the grenades of this wave
  goldDrops,        \* [Sides -> number of gold drops lying in that half]
  hearts,           \* [Sides -> number of heart pickups lying in that half]
  pendingPacks,     \* [Sides -> [MobTypes -> Nat, junk : own junk keys]]
  pendingBosses,    \* [Sides -> Seq(boss type)]
  pendingGrenades,  \* [Sides -> Nat]
  extraPlanLeft, extraPlanRight,
  extraPlanSpawnedLeft, extraPlanSpawnedRight,
  normalTarget, baseTarget,
  baseSpawnedLeft, baseSpawnedRight,
  forcedBaseType,   \* this._forcedBaseType, "null" for null / undefined
  leftReady, rightReady,
  fault,            \* TRUE once an entry point has thrown (the server has no handler)
  last,             \* what the last call did (history, not program state):
                    \* "run" it ran, "refused" it returned at its phase guard,
                    \* "idle" a step in GAME_OVER, "restart" a restart that reset,
                    \* "closed" a connection was closed
  events,           \* hits, kills and purchases of this match (history, for MaxEvents)
  arena,            \* positions in one half: its player and its monsters (SpecArena)
  combat,           \* one half in a fight: its player, monsters and bullets (SpecCombat)
  wave,             \* the spawns of one wave, both sides (SpecWave)
  greenPotions,     \* [Sides -> number of potion pickups lying in that half] (SpecPotions)
  clock,            \* the phase and its countdowns alone (SpecClock)
  field             \* both halves with what can hurt in them (SpecField)

coreVars ==
  <<state, winner, round, waveLeft, shopLeft, players, monsters, spawnWarnings,
    grenades, grenadeTimer, goldDrops, hearts, pendingPacks, pendingBosses,
    pendingGrenades, extraPlanLeft, extraPlanRight, extraPlanSpawnedLeft,
    extraPlanSpawnedRight, normalTarget, baseTarget, baseSpawnedLeft,
    baseSpawnedRight, forcedBaseType, leftReady, rightReady>>

\* The halves are used by SpecArena and SpecCombat, which look at positions
\* and at single bullets, the wave by SpecWave, which looks at single spawn
\* warnings, the potions by SpecPotions, the clock by SpecClock and the
\* field by SpecField, which looks at single projectiles, grenades and
\* contacts; everywhere else what they would decide is chosen by \E in
\* updatePlaying and they stay as they are.
halves == <<arena, combat, wave, greenPotions, clock, field>>

vars == <<coreVars, fault, last, events, halves>>

\* ----------------------------------------------------------------------
\* Helpers
\* ----------------------------------------------------------------------
Max(a, b) == IF a >= b THEN a ELSE b
Min(a, b) == IF a <= b THEN a ELSE b

\* Variant: clamp without its upper limit.
clamp_NoMax(value, min, max) == Max(min, value)

clamp(value, min, max) == Max(min, Min(max, value))

SideOf(id) == IF id = 1 THEN "left" ELSE "right"
IdOf(side) == IF side = "left" THEN 1 ELSE 2

bossTierForRound(r) == 1 + ((r - 1) \div 10)

bossTypeForRound(r) ==
  CASE bossTierForRound(r) = 1 -> "boss1"
    [] bossTierForRound(r) = 2 -> "boss2"
    [] OTHER -> "boss3"

isBossRound(r) == r % 5 = 0

\* Math.round(x * 1.32) for a natural x: floor((132 x + 50) / 100)
ScaleTarget(x) == (132 * x + 50) \div 100

\* ----------------------------------------------------------------------
\* Player
\* ----------------------------------------------------------------------
\* gold is a JavaScript number: goldNaN is TRUE when it is NaN (gold is then 0
\* in the record so that equal states are equal records).
Player(id, side) ==
  [id |-> id, side |-> side,
   maxHp |-> PLAYER_MAX_HP, hp |-> PLAYER_MAX_HP,
   gold |-> 0, goldNaN |-> FALSE,
   score |-> 0, monstersKilled |-> 0,
   weaponType |-> "null", weaponChosen |-> FALSE, weaponLevel |-> 1,
   grenadesBoughtThisRound |-> 0]

isAlive(p) == p.hp > 0

\* JavaScript comparisons of p.gold with a number: both are false for NaN.
GoldGE(p, cost) == ~p.goldNaN /\ p.gold >= cost
GoldLT(p, cost) == ~p.goldNaN /\ p.gold < cost

\* p.gold -= cost, p.gold += amount
GoldAdd(p, n) == IF p.goldNaN THEN p ELSE [p EXCEPT !.gold = @ + n]
GoldToNaN(p) == [p EXCEPT !.gold = 0, !.goldNaN = TRUE]

setWeapon(p, weaponType) ==
  IF weaponType \notin (WeaponTypes \cup ObjectProtoKeys)
  THEN p
  ELSE [p EXCEPT !.weaponType = weaponType, !.weaponChosen = TRUE, !.weaponLevel = 1]

\* Variant: the level goes up without a cap.
upgradeWeapon_NoCap(p) == [p EXCEPT !.weaponLevel = p.weaponLevel + 1]

upgradeWeapon(p) ==
  [p EXCEPT !.weaponLevel = Min(p.weaponLevel + 1, MAX_WEAPON_LEVEL)]

\* Variant: damage is subtracted without the floor at 0.
takeDamage_NoFloor(p, amount) == [p EXCEPT !.hp = p.hp - amount]

takeDamage(p, amount) == [p EXCEPT !.hp = Max(0, p.hp - amount)]

heal(p, amount) == [p EXCEPT !.hp = clamp(p.hp + amount, 0, p.maxHp)]

\* ----------------------------------------------------------------------
\* Positions of one half of the arena
\* ----------------------------------------------------------------------
\* The player loop and the monster loop of a tick treat every player and
\* every monster by the fields of its own half only, so arena holds one half:
\* side and alive (the half's player has hp > 0), x and y of that player, the
\* monsters of that half as records [x, y, radius, speed], and the ticks taken
\* (history, for MaxArenaTicks).  Coordinates are whole pixels, speeds pixels
\* per second; a product with a fraction is rounded down.
SCREEN_WIDTH == 1000
SCREEN_HEIGHT == 600
FENCE_X == SCREEN_WIDTH \div 2
ARENA_PADDING == 40
PLAYER_SPEED == 300
PLAYER_SIZE == 32          \* Player.width, Player.height

\* radius and speed of a monster of round 1: a normal mob and a boss of tier 1
\* (speed = Math.max(50, 90 * 0.55)).
MonsterKinds == {[radius |-> 34, speed |-> 90], [radius |-> 60, speed |-> 50]}

ArenaStart(side, alive) ==
  [side |-> side, alive |-> alive,
   x |-> (IF side = "left" THEN SCREEN_WIDTH \div 4 ELSE (3 * SCREEN_WIDTH) \div 4),
   y |-> (SCREEN_HEIGHT * 65) \div 100,
   mon |-> <<>>, ticks |-> 0]

\* ----------------------------------------------------------------------
\* One half of the arena in a fight
\* ----------------------------------------------------------------------
\* combat holds what aiming, firing and the bullet collisions of a tick read
\* and write in one half: hp, weaponType and weaponTimer of its player, its
\* monsters as records [id, hp], the player's bullets as records
\* [pierce0, pierce, lifetime, damaged] and, as history: pierce0 (the pierce
\* the bullet was created with), damaged (the ids of the monsters the bullet
\* has damaged), gone (the bullets the last tick removed), fired (the bullets
\* the last tick created), targets (the living monsters when the last tick
\* began) and ticks (for MaxCombatTicks).
WEAPON_DAMAGE(t) ==
  CASE t = "knife" -> 10 [] t = "axe" -> 18 [] t = "spear" -> 14 [] OTHER -> 8

\* WEAPON_CONFIG[t].cooldown, in units of 0.05 s
WEAPON_COOLDOWN(t) ==
  CASE t = "knife" -> 7 [] t = "axe" -> 13 [] t = "spear" -> 9 [] OTHER -> 11

\* pierceMap[weaponType] ?? 0
PierceOf(t) ==
  CASE t = "knife" -> 0 [] t = "axe" -> 2 [] t = "spear" -> 999 [] t = "bow" -> 1
    [] OTHER -> 0

CombatStart(hp, weaponType, mons) ==
  [hp |-> hp, weaponType |-> weaponType, weaponTimer |-> 0,
   mons |-> mons, bullets |-> <<>>, gone |-> <<>>,
   fired |-> 0, targets |-> 0, ticks |-> 0]

\* ----------------------------------------------------------------------
\* GameCore constructor
\* ----------------------------------------------------------------------
NoPacks == [slime |-> 0, fast |-> 0, tank |-> 0, spitter |-> 0, junk |-> {}]
BySide(l, r) == [left |-> l, right |-> r]
NoneBySide == BySide(0, 0)

\* The left half with its player at the start position, nothing else in it.
HalvesStart ==
  /\ arena = ArenaStart("left", TRUE)
  /\ combat = CombatStart(PLAYER_MAX_HP, "knife", <<>>)
  /\ wave = <<>>
  /\ greenPotions = NoneBySide
  /\ clock = <<>>
  /\ field = <<>>

CoreStart ==
  /\ players = <<Player(1, SideOf(1)), Player(2, SideOf(2))>>
  /\ monsters = NoneBySide
  /\ spawnWarnings = NoneBySide
  /\ grenades = NoneBySide
  /\ grenadeTimer = 0
  /\ goldDrops = NoneBySide
  /\ hearts = NoneBySide
  /\ state = "WEAPON_SELECT"
  /\ winner = "null"
  /\ round = 1
  /\ waveLeft = WAVE_TIME
  /\ shopLeft = SHOP_TIME
  /\ normalTarget = BASE_TARGET
  /\ baseTarget = BASE_TARGET
  /\ baseSpawnedLeft = 0
  /\ baseSpawnedRight = 0
  /\ pendingPacks = BySide(NoPacks, NoPacks)
  /\ pendingBosses = BySide(<<>>, <<>>)
  /\ pendingGrenades = NoneBySide
  /\ extraPlanLeft = <<>>
  /\ extraPlanRight = <<>>
  /\ extraPlanSpawnedLeft = 0
  /\ extraPlanSpawnedRight = 0
  /\ leftReady = FALSE
  /\ rightReady = FALSE
  /\ forcedBaseType = "null"
  /\ fault = FALSE
  /\ last = "run"
  /\ events = 0

Init == CoreStart /\ HalvesStart

\* ----------------------------------------------------------------------
\* Server-driven actions
\* ----------------------------------------------------------------------
handleWeaponChoice(playerId, weaponType) ==
  /\ last' = (IF state # "WEAPON_SELECT" THEN "refused" ELSE "run")
  /\ IF state # "WEAPON_SELECT"
     THEN UNCHANGED <<coreVars, fault>>
     ELSE /\ players' = [players EXCEPT ![playerId] = setWeapon(@, weaponType)]
          /\ UNCHANGED <<state, winner, round, waveLeft, shopLeft, monsters,
                         spawnWarnings, grenades, grenadeTimer, goldDrops, hearts,
                         pendingPacks, pendingBosses, pendingGrenades,
                         extraPlanLeft, extraPlanRight, extraPlanSpawnedLeft,
                         extraPlanSpawnedRight, normalTarget, baseTarget,
                         baseSpawnedLeft, baseSpawnedRight, forcedBaseType,
                         leftReady, rightReady, fault>>

\* The aliases of older clients, applied first.
CanonicalAction(action) ==
  CASE action = "upgrade" -> "upgrade_weapon"
    [] action = "send_mobs" -> "send:slime"
    [] OTHER -> action

\* action && action.startsWith("send:")
IsSend(action) ==
  action \in {"send:slime", "send:fast", "send:tank", "send:spitter",
              "send:dragon", "send:toString"}

\* action.split(":")[1]
MobTypeOf(action) ==
  CASE action = "send:slime" -> "slime"
    [] action = "send:fast" -> "fast"
    [] action = "send:tank" -> "tank"
    [] action = "send:spitter" -> "spitter"
    [] action = "send:toString" -> "toString"
    [] OTHER -> "dragon"

\* Variant: the pack is queued on the other side than the one passed.
queueSendPack_OtherSide(packs, side, mobType) ==
  LET other == IF side = "left" THEN "right" ELSE "left"
  IN IF mobType \in MobTypes
     THEN [packs EXCEPT ![other][mobType] = @ + 1]
     ELSE IF mobType \in ObjectProtoKeys
          THEN [packs EXCEPT ![other].junk = @ \cup {mobType}]
          ELSE packs

\* queueSendPack: a key that is "in" the side's record is incremented; for an
\* inherited key the += 1 stores a junk string as an own property.
queueSendPack(packs, side, mobType) ==
  IF mobType \in MobTypes
  THEN [packs EXCEPT ![side][mobType] = @ + 1]
  ELSE IF mobType \in ObjectProtoKeys
       THEN [packs EXCEPT ![side].junk = @ \cup {mobType}]
       ELSE packs

\* Number of purchases queued, over both sides.
QueuedOf(packs, bosses, grenadeCount) ==
  LET n(s) == packs[s].slime + packs[s].fast + packs[s].tank + packs[s].spitter
              + Len(bosses[s]) + grenadeCount[s]
  IN n("left") + n("right")

Queued == QueuedOf(pendingPacks, pendingBosses, pendingGrenades)

\* Variant: no limit on the grenades of a shop phase.
grenadeLimitReached_Never(p) == FALSE

\* The limit of the send_grenade branch.
grenadeLimitReached(p) == p.grenadesBoughtThisRound >= GRENADE_MAX_PER_ROUND

handleShopAction(playerId, rawAction) ==
  /\ last' = (IF state # "SHOP" THEN "refused" ELSE "run")
  /\ UNCHANGED <<state, winner, round, waveLeft, shopLeft, monsters, spawnWarnings,
                 grenades, grenadeTimer, goldDrops, hearts, extraPlanLeft, extraPlanRight,
                 extraPlanSpawnedLeft, extraPlanSpawnedRight, normalTarget,
                 baseTarget, baseSpawnedLeft, baseSpawnedRight, forcedBaseType>>
  /\ LET p == players[playerId]
         action == CanonicalAction(rawAction)
         opponentSide == IF p.side = "left" THEN "right" ELSE "left"
         nothing == UNCHANGED <<players, pendingPacks, pendingBosses, pendingGrenades,
                                leftReady, rightReady, fault>>
     IN
     IF state # "SHOP" THEN nothing
     ELSE IF action = "upgrade_weapon" THEN
       IF GoldGE(p, UPGRADE_COST)
       THEN /\ players' = [players EXCEPT
                             ![playerId] = upgradeWeapon(GoldAdd(p, -UPGRADE_COST))]
            /\ UNCHANGED <<pendingPacks, pendingBosses, pendingGrenades,
                           leftReady, rightReady, fault>>
       ELSE nothing
     ELSE IF action = "heal" THEN
       IF GoldGE(p, HEAL_COST)
       THEN /\ players' = [players EXCEPT
                             ![playerId] = heal(GoldAdd(p, -HEAL_COST), HEAL_AMOUNT)]
            /\ UNCHANGED <<pendingPacks, pendingBosses, pendingGrenades,
                           leftReady, rightReady, fault>>
       ELSE nothing
     ELSE IF action = NonText THEN
       \* action.startsWith is not a function: TypeError
       /\ fault' = TRUE
       /\ UNCHANGED <<players, pendingPacks, pendingBosses, pendingGrenades,
                      leftReady, rightReady>>
     ELSE IF IsSend(action) THEN
       LET mobType == MobTypeOf(action) IN
       IF mobType \notin (MobTypes \cup ObjectProtoKeys) THEN nothing   \* !cost
       ELSE IF mobType \in ObjectProtoKeys THEN
         \* cost is a function: p.gold < cost is false, p.gold -= cost is NaN
         /\ players' = [players EXCEPT ![playerId] = GoldToNaN(p)]
         /\ pendingPacks' = queueSendPack(pendingPacks, opponentSide, mobType)
         /\ UNCHANGED <<pendingBosses, pendingGrenades, leftReady, rightReady, fault>>
       ELSE IF GoldLT(p, SEND_MOB_COST(mobType)) THEN nothing
       ELSE
         /\ players' = [players EXCEPT
                          ![playerId] = GoldAdd(p, -SEND_MOB_COST(mobType))]
         /\ pendingPacks' = queueSendPack(pendingPacks, opponentSide, mobType)
         /\ UNCHANGED <<pendingBosses, pendingGrenades, leftReady, rightReady, fault>>
     ELSE IF action = "send_boss" THEN
       IF GoldLT(p, SEND_BOSS_COST) THEN nothing
       ELSE
         /\ players' = [players EXCEPT ![playerId] = GoldAdd(p, -SEND_BOSS_COST)]
         /\ pendingBosses' = [pendingBosses EXCEPT
                                ![opponentSide] = Append(@, bossTypeForRound(round))]
         /\ UNCHANGED <<pendingPacks, pendingGrenades, leftReady, rightReady, fault>>
     ELSE IF action = "send_grenade" THEN
       IF grenadeLimitReached(p) THEN nothing
       ELSE IF GoldLT(p, GRENADE_COST) THEN nothing
       ELSE
         /\ players' = [players EXCEPT
                          ![playerId] = [GoldAdd(p, -GRENADE_COST) EXCEPT
                                           !.grenadesBoughtThisRound = @ + 1]]
         /\ pendingGrenades' = [pendingGrenades EXCEPT ![opponentSide] = @ + 1]
         /\ UNCHANGED <<pendingPacks, pendingBosses, leftReady, rightReady, fault>>
     ELSE IF action = "start_round" THEN
       /\ leftReady' = (IF p.side = "left" THEN TRUE ELSE leftReady)
       /\ rightReady' = (IF p.side = "left" THEN rightReady ELSE TRUE)
       /\ UNCHANGED <<players, pendingPacks, pendingBosses, pendingGrenades, fault>>
     ELSE nothing

\* Variant: handleReady without its phase guard.
handleReady_NoGuard(playerId) ==
  /\ last' = (IF state # "SHOP" THEN "refused" ELSE "run")
  /\ leftReady' = (IF players[playerId].side = "left" THEN TRUE ELSE leftReady)
  /\ rightReady' = (IF players[playerId].side = "left" THEN rightReady ELSE TRUE)
  /\ UNCHANGED <<state, winner, round, waveLeft, shopLeft, players, monsters,
                 spawnWarnings, grenades, grenadeTimer, goldDrops, hearts,
                 pendingPacks, pendingBosses, pendingGrenades,
                 extraPlanLeft, extraPlanRight, extraPlanSpawnedLeft,
                 extraPlanSpawnedRight, normalTarget, baseTarget,
                 baseSpawnedLeft, baseSpawnedRight, forcedBaseType, fault>>

\* Variant: a ready signal raises both flags.
handleReady_Both(playerId) ==
  /\ last' = (IF state # "SHOP" THEN "refused" ELSE "run")
  /\ IF state # "SHOP"
     THEN UNCHANGED <<coreVars, fault>>
     ELSE /\ leftReady' = TRUE
          /\ rightReady' = TRUE
          /\ UNCHANGED <<state, winner, round, waveLeft, shopLeft, players, monsters,
                         spawnWarnings, grenades, grenadeTimer, goldDrops, hearts,
                         pendingPacks, pendingBosses, pendingGrenades,
                         extraPlanLeft, extraPlanRight, extraPlanSpawnedLeft,
                         extraPlanSpawnedRight, normalTarget, baseTarget,
                         baseSpawnedLeft, baseSpawnedRight, forcedBaseType, fault>>

handleReady(playerId) ==
  /\ last' = (IF state # "SHOP" THEN "refused" ELSE "run")
  /\ IF state # "SHOP"
     THEN UNCHANGED <<coreVars, fault>>
     ELSE /\ leftReady' = (IF players[playerId].side = "left" THEN TRUE ELSE leftReady)
          /\ rightReady' = (IF players[playerId].side = "left" THEN rightReady ELSE TRUE)
          /\ UNCHANGED <<state, winner, round, waveLeft, shopLeft, players, monsters,
                         spawnWarnings, grenades, grenadeTimer, goldDrops, hearts,
                         pendingPacks, pendingBosses, pendingGrenades,
                         extraPlanLeft, extraPlanRight, extraPlanSpawnedLeft,
                         extraPlanSpawnedRight, normalTarget, baseTarget,
                         baseSpawnedLeft, baseSpawnedRight, forcedBaseType, fault>>

\* Variant: a reset that keeps the player objects of the match that ended.
resetMatch_KeepsPlayers ==
  /\ players' = players
  /\ monsters' = [left |-> 0, right |-> 0]
  /\ spawnWarnings' = [left |-> 0, right |-> 0]
  /\ grenades' = [left |-> 0, right |-> 0]
  /\ grenadeTimer' = 0
  /\ goldDrops' = [left |-> 0, right |-> 0]
  /\ hearts' = [left |-> 0, right |-> 0]
  /\ state' = "WEAPON_SELECT"
  /\ winner' = "null"
  /\ round' = 1
  /\ waveLeft' = WAVE_TIME
  /\ shopLeft' = SHOP_TIME
  /\ normalTarget' = BASE_TARGET
  /\ baseTarget' = BASE_TARGET
  /\ baseSpawnedLeft' = 0
  /\ baseSpawnedRight' = 0
  /\ pendingPacks' = [left |-> NoPacks, right |-> NoPacks]
  /\ pendingBosses' = [left |-> <<>>, right |-> <<>>]
  /\ pendingGrenades' = [left |-> 0, right |-> 0]
  /\ extraPlanLeft' = <<>>
  /\ extraPlanRight' = <<>>
  /\ extraPlanSpawnedLeft' = 0
  /\ extraPlanSpawnedRight' = 0
  /\ leftReady' = FALSE
  /\ rightReady' = FALSE
  /\ UNCHANGED forcedBaseType

\* resetMatch: Object.assign(this, new GameCore()) overwrites every field the
\* constructor sets; _forcedBaseType is not one of them and keeps its value.
resetMatch ==
  /\ players' = <<Player(1, SideOf(1)), Player(2, SideOf(2))>>
  /\ monsters' = NoneBySide
  /\ spawnWarnings' = NoneBySide
  /\ grenades' = NoneBySide
  /\ grenadeTimer' = 0
  /\ goldDrops' = NoneBySide
  /\ hearts' = NoneBySide
  /\ state' = "WEAPON_SELECT"
  /\ winner' = "null"
  /\ round' = 1
  /\ waveLeft' = WAVE_TIME
  /\ shopLeft' = SHOP_TIME
  /\ normalTarget' = BASE_TARGET
  /\ baseTarget' = BASE_TARGET
  /\ baseSpawnedLeft' = 0
  /\ baseSpawnedRight' = 0
  /\ pendingPacks' = BySide(NoPacks, NoPacks)
  /\ pendingBosses' = BySide(<<>>, <<>>)
  /\ pendingGrenades' = NoneBySide
  /\ extraPlanLeft' = <<>>
  /\ extraPlanRight' = <<>>
  /\ extraPlanSpawnedLeft' = 0
  /\ extraPlanSpawnedRight' = 0
  /\ leftReady' = FALSE
  /\ rightReady' = FALSE
  /\ UNCHANGED forcedBaseType

\* Variant: handleRestart without its phase guard.
handleRestart_AnyPhase ==
  /\ last' = (IF state # "GAME_OVER" THEN "refused" ELSE "restart")
  /\ UNCHANGED fault
  /\ resetMatch

handleRestart ==
  /\ last' = (IF state # "GAME_OVER" THEN "refused" ELSE "restart")
  /\ UNCHANGED fault
  /\ IF state # "GAME_OVER"
     THEN UNCHANGED coreVars
     ELSE resetMatch

\* Variant: a close during a wave leaves the player's hp as it is.
wsClose_NoLoss(playerId) ==
  /\ last' = "closed"
  /\ players' =
       [players EXCEPT ![playerId] =
          IF state = "WEAPON_SELECT"
          THEN [@ EXCEPT !.weaponType = "null", !.weaponChosen = FALSE]
          ELSE @]
  /\ UNCHANGED <<state, winner, round, waveLeft, shopLeft, monsters,
                 spawnWarnings, grenades, grenadeTimer, goldDrops, hearts,
                 pendingPacks, pendingBosses, pendingGrenades,
                 extraPlanLeft, extraPlanRight, extraPlanSpawnedLeft,
                 extraPlanSpawnedRight, normalTarget, baseTarget,
                 baseSpawnedLeft, baseSpawnedRight, forcedBaseType,
                 leftReady, rightReady, fault>>

\* Variant: a close during weapon selection leaves the selection as it is.
wsClose_KeepsChoice(playerId) ==
  /\ last' = "closed"
  /\ players' =
       [players EXCEPT ![playerId] =
          IF state = "PLAYING" THEN [@ EXCEPT !.hp = 0] ELSE @]
  /\ UNCHANGED <<state, winner, round, waveLeft, shopLeft, monsters,
                 spawnWarnings, grenades, grenadeTimer, goldDrops, hearts,
                 pendingPacks, pendingBosses, pendingGrenades,
                 extraPlanLeft, extraPlanRight, extraPlanSpawnedLeft,
                 extraPlanSpawnedRight, normalTarget, baseTarget,
                 baseSpawnedLeft, baseSpawnedRight, forcedBaseType,
                 leftReady, rightReady, fault>>

\* ws.on("close") of the server: writes to the core's player directly.
wsClose(playerId) ==
  /\ last' = "closed"
  /\ players' =
       [players EXCEPT ![playerId] =
          IF state = "WEAPON_SELECT"
          THEN [@ EXCEPT !.weaponType = "null", !.weaponChosen = FALSE]
          ELSE IF state = "PLAYING" THEN [@ EXCEPT !.hp = 0]
          ELSE @]
  /\ UNCHANGED <<state, winner, round, waveLeft, shopLeft, monsters,
                 spawnWarnings, grenades, grenadeTimer, goldDrops, hearts,
                 pendingPacks, pendingBosses, pendingGrenades,
                 extraPlanLeft, extraPlanRight, extraPlanSpawnedLeft,
                 extraPlanSpawnedRight, normalTarget, baseTarget,
                 baseSpawnedLeft, baseSpawnedRight, forcedBaseType,
                 leftReady, rightReady, fault>>

\* ----------------------------------------------------------------------
\* Step
\* ----------------------------------------------------------------------
Rep(x, n) == [i \in 1..n |-> x]

\* Variant: every pack has the default size.
buildPlan_DefaultSize(side) ==
  pendingBosses[side]
    \o Rep("slime", 3 * pendingPacks[side].slime)
    \o Rep("fast", 3 * pendingPacks[side].fast)
    \o Rep("tank", 3 * pendingPacks[side].tank)
    \o Rep("spitter", 3 * pendingPacks[side].spitter)

\* buildPlan(side) of startNewRound: the queued bosses, then amountPerPack
\* entries per pack in the key order of pendingPacks.  A junk own key has a
\* count that is not a number, so its loop body never runs.
buildPlan(side) ==
  pendingBosses[side]
    \o Rep("slime", SEND_MOB_AMOUNT("slime") * pendingPacks[side].slime)
    \o Rep("fast", SEND_MOB_AMOUNT("fast") * pendingPacks[side].fast)
    \o Rep("tank", SEND_MOB_AMOUNT("tank") * pendingPacks[side].tank)
    \o Rep("spitter", SEND_MOB_AMOUNT("spitter") * pendingPacks[side].spitter)

\* Variant: a boss round overwrites the target the later rounds grow from.
startNewRound_BossResets(r) ==
  /\ state' = "PLAYING"
  /\ winner' = "null"
  /\ waveLeft' = WAVE_TIME
  /\ monsters' = NoneBySide
  /\ goldDrops' = NoneBySide
  /\ hearts' = NoneBySide
  /\ spawnWarnings' = NoneBySide
  /\ grenades' = BySide(pendingGrenades["left"], pendingGrenades["right"])
  /\ grenadeTimer' = (IF pendingGrenades["left"] + pendingGrenades["right"] > 0
                      THEN GRENADE_FUSE ELSE 0)
  /\ pendingGrenades' = NoneBySide
  /\ extraPlanLeft' = buildPlan("left")
  /\ extraPlanRight' = buildPlan("right")
  /\ pendingBosses' = BySide(<<>>, <<>>)
  /\ pendingPacks' = BySide(NoPacks, NoPacks)
  /\ extraPlanSpawnedLeft' = 0
  /\ extraPlanSpawnedRight' = 0
  /\ normalTarget' = (IF isBossRound(r) THEN 1 ELSE ScaleTarget(normalTarget))
  /\ baseTarget' = (IF isBossRound(r) THEN 1 ELSE ScaleTarget(normalTarget))
  /\ baseSpawnedLeft' = 0
  /\ baseSpawnedRight' = 0
  /\ forcedBaseType' = (IF isBossRound(r) THEN bossTypeForRound(r) ELSE "null")

\* startNewRound, with r the value of this.round when it is called.  It leaves
\* round, shopLeft, players and the ready flags alone.
startNewRound(r) ==
  /\ state' = "PLAYING"
  /\ winner' = "null"
  /\ waveLeft' = WAVE_TIME
  /\ monsters' = NoneBySide
  /\ goldDrops' = NoneBySide
  /\ hearts' = NoneBySide
  /\ spawnWarnings' = NoneBySide
  /\ grenades' = BySide(pendingGrenades["left"], pendingGrenades["right"])
  /\ grenadeTimer' = (IF pendingGrenades["left"] + pendingGrenades["right"] > 0
                      THEN GRENADE_FUSE ELSE 0)
  /\ pendingGrenades' = NoneBySide
  /\ extraPlanLeft' = buildPlan("left")
  /\ extraPlanRight' = buildPlan("right")
  /\ pendingBosses' = BySide(<<>>, <<>>)
  /\ pendingPacks' = BySide(NoPacks, NoPacks)
  /\ extraPlanSpawnedLeft' = 0
  /\ extraPlanSpawnedRight' = 0
  /\ normalTarget' = (IF isBossRound(r) THEN normalTarget ELSE ScaleTarget(normalTarget))
  /\ baseTarget' = (IF isBossRound(r) THEN 1 ELSE ScaleTarget(normalTarget))
  /\ baseSpawnedLeft' = 0
  /\ baseSpawnedRight' = 0
  /\ forcedBaseType' = (IF isBossRound(r) THEN bossTypeForRound(r) ELSE "null")

\* Variant: the match starts as soon as one side has chosen.
bothChosen_Either(pl) ==
  \/ \E id \in PlayerIds : pl[id].side = "left" /\ pl[id].weaponChosen
  \/ \E id \in PlayerIds : pl[id].side = "right" /\ pl[id].weaponChosen

bothChosen(pl) ==
  /\ \E id \in PlayerIds : pl[id].side = "left" /\ pl[id].weaponChosen
  /\ \E id \in PlayerIds : pl[id].side = "right" /\ pl[id].weaponChosen

updateWeaponSelect(dt) ==
  /\ IF bothChosen(players)
     THEN /\ startNewRound(round)
          /\ UNCHANGED <<round, shopLeft, players, leftReady, rightReady, fault>>
     ELSE UNCHANGED <<coreVars, fault>>

\* Variant: the countdown branch does not return, so a tick in which the
\* countdown reaches zero while both players are ready counts the round twice.
updateShop_NoReturn(dt) ==
  /\ IF shopLeft - dt <= 0 \/ (leftReady /\ rightReady)
     THEN /\ shopLeft' = (IF shopLeft - dt <= 0 THEN 0 ELSE shopLeft - dt)
          /\ round' = round + (IF shopLeft - dt <= 0 THEN 1 ELSE 0)
                             + (IF leftReady /\ rightReady THEN 1 ELSE 0)
          /\ startNewRound(round')
          /\ UNCHANGED <<players, leftReady, rightReady, fault>>
     ELSE /\ shopLeft' = shopLeft - dt
          /\ UNCHANGED <<state, winner, round, waveLeft, players, monsters,
                         spawnWarnings, grenades, grenadeTimer, goldDrops, hearts,
                         pendingPacks, pendingBosses, pendingGrenades,
                         extraPlanLeft, extraPlanRight, extraPlanSpawnedLeft,
                         extraPlanSpawnedRight, normalTarget, baseTarget,
                         baseSpawnedLeft, baseSpawnedRight, forcedBaseType,
                         leftReady, rightReady, fault>>

\* updateShop: the countdown first, then the ready flags.
updateShop(dt) ==
  /\ IF shopLeft - dt <= 0
     THEN /\ shopLeft' = 0
          /\ round' = round + 1
          /\ startNewRound(round + 1)
          /\ UNCHANGED <<players, leftReady, rightReady, fault>>
     ELSE IF leftReady /\ rightReady
     THEN /\ shopLeft' = shopLeft - dt
          /\ round' = round + 1
          /\ startNewRound(round + 1)
          /\ UNCHANGED <<players, leftReady, rightReady, fault>>
     ELSE /\ shopLeft' = shopLeft - dt
          /\ UNCHANGED <<state, winner, round, waveLeft, players, monsters,
                         spawnWarnings, grenades, grenadeTimer, goldDrops, hearts,
                         pendingPacks, pendingBosses, pendingGrenades,
                         extraPlanLeft, extraPlanRight, extraPlanSpawnedLeft,
                         extraPlanSpawnedRight, normalTarget, baseTarget,
                         baseSpawnedLeft, baseSpawnedRight, forcedBaseType,
                         leftReady, rightReady, fault>>

\* ----------------------------------------------------------------------
\* updatePlaying
\* ----------------------------------------------------------------------
\* With dt in DtSet every spawn cooldown (at most 1.6 s, and 0.95 s whenever a
\* second baseline spawn is due) has run out after one tick of dt > 0 and none
\* runs out in a tick of dt = 0.  A warning outlives the tick that created it
\* only if that was a short tick, so every pending warning has the same timer.
cdElapsed(dt) == dt >= FineDt

\* Timer of a warning that was not converted in the tick that created it.
OldWarningTimer == TELEGRAPH - FineDt

\* g.damage * (0.4 + 0.6 * (1 - d / g.radius)) for a player at distance d
grenadeDamageToPlayer(d) ==
  IF d <= GRENADE_RADIUS
  THEN (GRENADE_DAMAGE * (4 * GRENADE_RADIUS + 6 * (GRENADE_RADIUS - d)))
         \div (10 * GRENADE_RADIUS)
  ELSE 0

\* Total damage of the first n grenades of a side to its player, dist[i] being
\* the distance class of grenade i.
RECURSIVE grenadeDamageSum(_, _)
grenadeDamageSum(dist, n) ==
  IF n = 0 THEN 0
  ELSE grenadeDamageToPlayer(dist[n]) + grenadeDamageSum(dist, n - 1)

\* Variant: the game-over check is skipped in the tick that ends the wave.
gameOverState_NotAtWaveEnd(st, pl) ==
  IF st = "SHOP" \/ (isAlive(pl[IdOf("left")]) /\ isAlive(pl[IdOf("right")]))
  THEN st ELSE "GAME_OVER"

\* Variant: the winner is the side that fell.
gameOverWinner_Fallen(w, pl) ==
  LET aliveLeft == isAlive(pl[IdOf("left")])
      aliveRight == isAlive(pl[IdOf("right")])
  IN IF aliveLeft /\ aliveRight THEN w
     ELSE IF aliveLeft /\ ~aliveRight THEN "right"
     ELSE IF aliveRight /\ ~aliveLeft THEN "left"
     ELSE "draw"

\* Variant: the match goes on while one player is left.
gameOverState_BothFallen(st, pl) ==
  IF isAlive(pl[IdOf("left")]) \/ isAlive(pl[IdOf("right")]) THEN st ELSE "GAME_OVER"

\* Variant: no winner is entered when both players have fallen.
gameOverWinner_NoDraw(w, pl) ==
  LET aliveLeft == isAlive(pl[IdOf("left")])
      aliveRight == isAlive(pl[IdOf("right")])
  IN IF aliveLeft /\ ~aliveRight THEN "left"
     ELSE IF aliveRight /\ ~aliveLeft THEN "right"
     ELSE w

\* The game-over check at the end of updatePlaying.
gameOverState(st, pl) ==
  IF isAlive(pl[IdOf("left")]) /\ isAlive(pl[IdOf("right")]) THEN st ELSE "GAME_OVER"

gameOverWinner(w, pl) ==
  LET aliveLeft == isAlive(pl[IdOf("left")])
      aliveRight == isAlive(pl[IdOf("right")])
  IN IF aliveLeft /\ aliveRight THEN w
     ELSE IF aliveLeft /\ ~aliveRight THEN "left"
     ELSE IF aliveRight /\ ~aliveLeft THEN "right"
     ELSE "draw"

\* The wave timer at the top of updatePlaying.
waveEnds(dt) == waveLeft > 0 /\ waveLeft - dt <= 0

\* Variant: the wave end leaves the ready flags as they are.
readyAfterWave_Kept(ended, ready) == ready

\* A ready flag after the wave-timer block: the wave end clears it.
readyAfterWave(ended, ready) == IF ended THEN FALSE ELSE ready

\* The tick in the order of the code.  What positions would decide is chosen
\* by \E, per side, within what the code allows:
\*   eb        enemy bullets that hit the side's living player
\*   gdist     distance class of the player from each grenade of the side
\*   gkill     [side, idx]: the grenade that brings a monster to hp <= 0, or side "none"
\*   kills     monsters of the side brought to hp 0 by player bullets: the
\*             side's player has fired at a target (a monster was there when
\*             the tick began), with a real weapon, and the bullet outlives dt
\*   drops     gold drops rolled for those kills
\*   contacts  monsters in melee range of the living player
\*   hdrops    heart pickups rolled for those kills
\*   picked    gold drops collected by the living player
\*   healed    heart pickups collected by the living player
\* In a tick of dt = 0 nothing moves and no timer runs.  The choices leave
\* such a tick without hits, kills and pickups: the overlaps that exist were
\* there for the tick before, and a bullet fired in this tick is left to the
\* next one.
updatePlaying(dt) ==
  LET ended == waveEnds(dt)
      wl1 == IF waveLeft > 0 THEN (IF ended THEN 0 ELSE waveLeft - dt) ELSE waveLeft
      st1 == IF ended THEN "SHOP" ELSE state
      pl1 == IF ended
             THEN <<[players[1] EXCEPT !.grenadesBoughtThisRound = 0],
                    [players[2] EXCEPT !.grenadesBoughtThisRound = 0]>>
             ELSE players
      \* spawn baseline monsters / extra mobs (only while the wave runs)
      total0 == monsters["left"] + monsters["right"]
      baseSpawned(s) == IF s = "left" THEN baseSpawnedLeft ELSE baseSpawnedRight
      plan(s) == IF s = "left" THEN extraPlanLeft ELSE extraPlanRight
      extraSpawned(s) == IF s = "left" THEN extraPlanSpawnedLeft ELSE extraPlanSpawnedRight
      baseWarn(s) == IF wl1 > 0 /\ baseSpawned(s) < baseTarget /\ cdElapsed(dt)
                        /\ total0 < MAX_MONSTERS
                     THEN 1 ELSE 0
      extraWarn(s) == IF wl1 > 0 /\ total0 < MAX_MONSTERS
                         /\ extraSpawned(s) < Len(plan(s)) /\ cdElapsed(dt)
                      THEN 1 ELSE 0
      newWarn(s) == baseWarn(s) + extraWarn(s)
      \* spawn warnings -> monsters
      conv(s) == (IF OldWarningTimer - dt <= 0 THEN spawnWarnings[s] ELSE 0)
                 + (IF TELEGRAPH - dt <= 0 THEN newWarn(s) ELSE 0)
      warn(s) == spawnWarnings[s] + newWarn(s) - conv(s)
      warn1 == BySide(warn("left"), warn("right"))
      mon1 == BySide(monsters["left"] + conv("left"), monsters["right"] + conv("right"))
      anyGrenade == grenades["left"] + grenades["right"] > 0
      gt1 == IF anyGrenade THEN grenadeTimer - dt ELSE grenadeTimer
      explode == anyGrenade /\ gt1 <= 0
      ebSet(s) == IF dt > 0 /\ mon1[s] > 0 /\ isAlive(pl1[IdOf(s)])
                  THEN 0..(MaxEvents - events) ELSE {0}
      gdistSet(s) == [1..(IF explode THEN grenades[s] ELSE 0) -> GrenadeDistances]
      gkillSet == {[side |-> "none", idx |-> 0]}
                    \cup {g \in [side : Sides, idx : 1..GRENADE_MAX_PER_ROUND] :
                            explode /\ g.idx <= grenades[g.side] /\ mon1[g.side] > 0}
  IN
  /\ waveLeft' = wl1
  /\ shopLeft' = (IF ended THEN SHOP_TIME ELSE shopLeft)
  /\ leftReady' = readyAfterWave(ended, leftReady)
  /\ rightReady' = readyAfterWave(ended, rightReady)
  /\ spawnWarnings' = warn1
  /\ baseSpawnedLeft' = baseSpawnedLeft + baseWarn("left")
  /\ baseSpawnedRight' = baseSpawnedRight + baseWarn("right")
  /\ extraPlanSpawnedLeft' = extraPlanSpawnedLeft + extraWarn("left")
  /\ extraPlanSpawnedRight' = extraPlanSpawnedRight + extraWarn("right")
  /\ UNCHANGED <<round, pendingPacks, pendingBosses, pendingGrenades, extraPlanLeft,
                 extraPlanRight, normalTarget, baseTarget, forcedBaseType>>
  /\ \E ebL \in ebSet("left"), ebR \in ebSet("right"),
        gdL \in gdistSet("left"), gdR \in gdistSet("right"), gkill \in gkillSet :
       LET eb == BySide(ebL, ebR)
           gdist == BySide(gdL, gdR)
           \* enemy bullets vs players
           hitA(p) == IF isAlive(p)
                      THEN takeDamage(p, SPITTER_PROJECTILE_DAMAGE * eb[p.side])
                      ELSE p
           plA == <<hitA(pl1[1]), hitA(pl1[2])>>
           \* grenades of side s that have damaged its player when the loop
           \* ends or throws; the left grenades come first in the array
           throws == gkill.side # "none"
           reached(s) ==
             IF ~explode THEN 0
             ELSE IF ~throws THEN grenades[s]
             ELSE IF gkill.side = s THEN gkill.idx
             ELSE IF s = "left" THEN grenades[s]
             ELSE 0
           hitB(p) == IF isAlive(p)
                      THEN takeDamage(p, grenadeDamageSum(gdist[p.side], reached(p.side)))
                      ELSE p
           plB == <<hitB(plA[1]), hitB(plA[2])>>
           ev1 == events + ebL + ebR
       IN
       /\ ev1 <= MaxEvents
       /\ IF throws
          THEN \* m.isAlive = false on a getter-only property: TypeError (class
               \* bodies are strict code); the rest of the tick does not run
               /\ fault' = TRUE
               /\ events' = ev1
               /\ state' = st1
               /\ winner' = winner
               /\ players' = plB
               /\ monsters' = mon1
               /\ grenades' = grenades
               /\ grenadeTimer' = gt1
               /\ goldDrops' = goldDrops
               /\ hearts' = hearts
          ELSE
            LET killSet(s) ==
                  IF /\ players[IdOf(s)].weaponType \in WeaponTypes
                     /\ dt > 0 /\ dt < BULLET_LIFETIME
                     /\ monsters[s] > 0
                  THEN 0..Min(mon1[s], MaxEvents - ev1)
                  ELSE {0}
            IN
            \E kL \in killSet("left"), kR \in killSet("right") :
            \E dL \in 0..kL, dR \in 0..kR, hdL \in 0..kL, hdR \in 0..kR :
              LET kills == BySide(kL, kR)
                  drops == BySide(dL, dR)
                  hdrops == BySide(hdL, hdR)
                  \* bullets vs monsters
                  credit(p) == [p EXCEPT !.monstersKilled = @ + kills[p.side],
                                         !.score = @ + 15 * kills[p.side]]
                  plK == <<credit(plB[1]), credit(plB[2])>>
                  mon2 == BySide(mon1["left"] - kL, mon1["right"] - kR)
                  \* monsters vs players: a monster touches only a living player
                  needed(hp) == (hp + CONTACT_DAMAGE - 1) \div CONTACT_DAMAGE
                  contactSet(s) ==
                    IF dt > 0 /\ isAlive(plK[IdOf(s)])
                    THEN 0..Min(Min(mon2[s], needed(plK[IdOf(s)].hp)), MaxEvents - ev1)
                    ELSE {0}
              IN
              /\ ev1 + kL + kR <= MaxEvents
              /\ \E cL \in contactSet("left"), cR \in contactSet("right") :
                LET touched == BySide(cL, cR)
                    hitC(p) == takeDamage(p, CONTACT_DAMAGE * touched[p.side])
                    plC == <<hitC(plK[1]), hitC(plK[2])>>
                    mon3 == BySide(mon2["left"] - cL, mon2["right"] - cR)
                    pickSet(s) == IF dt > 0 /\ isAlive(plC[IdOf(s)])
                                  THEN 0..(goldDrops[s] + drops[s]) ELSE {0}
                    heartSet(s) == IF dt > 0 /\ isAlive(plC[IdOf(s)])
                                   THEN 0..(hearts[s] + hdrops[s]) ELSE {0}
                IN
                /\ ev1 + kL + kR + cL + cR <= MaxEvents
                /\ \E pkL \in pickSet("left"), pkR \in pickSet("right"),
                      hL \in heartSet("left"), hR \in heartSet("right") :
                  LET picked == BySide(pkL, pkR)
                      healed == BySide(hL, hR)
                      \* pickups, living players only
                      collect(p) == IF isAlive(p)
                                    THEN heal(GoldAdd(p, GOLD_PER_PICKUP * picked[p.side]),
                                              HEART_HEAL * healed[p.side])
                                    ELSE p
                      plP == <<collect(plC[1]), collect(plC[2])>>
                  IN
                  /\ fault' = fault
                  /\ events' = ev1 + kL + kR + cL + cR
                  /\ players' = plP
                  /\ monsters' = mon3
                  /\ grenades' = (IF explode THEN NoneBySide ELSE grenades)
                  /\ grenadeTimer' = (IF explode THEN 0 ELSE gt1)
                  /\ goldDrops' = BySide(goldDrops["left"] + dL - pkL,
                                          goldDrops["right"] + dR - pkR)
                  /\ hearts' = BySide(hearts["left"] + hdL - hL,
                                       hearts["right"] + hdR - hR)
                  /\ state' = gameOverState(st1, plP)
                  /\ winner' = gameOverWinner(winner, plP)

\* dt values the model passes in the current state: at most MaxFineTicks
\* short ticks in one wave or one shop phase (the short ticks taken so far
\* are read off the countdown), and the wave of round MaxRound is not run to
\* its end.
FineTicksIn(total, left) == ((total - left) % LongDt) \div FineDt

dtAllowed(dt) ==
  CASE state = "PLAYING" ->
         /\ dt = FineDt => FineTicksIn(WAVE_TIME, waveLeft) < MaxFineTicks
         /\ waveEnds(dt) => round < MaxRound
    [] state = "SHOP" ->
         dt = FineDt => FineTicksIn(SHOP_TIME, shopLeft) < MaxFineTicks
    [] OTHER -> TRUE

\* Variant: the shop countdown keeps running in GAME_OVER.
step_CountdownInGameOver(dt) ==
  /\ last' = (IF state = "GAME_OVER" THEN "idle" ELSE "run")
  /\ CASE state = "WEAPON_SELECT" -> updateWeaponSelect(dt) /\ UNCHANGED events
       [] state = "PLAYING" -> updatePlaying(dt)
       [] state = "SHOP" -> updateShop(dt) /\ UNCHANGED events
       [] OTHER ->
            /\ shopLeft' = Max(0, shopLeft - dt)
            /\ UNCHANGED <<state, winner, round, waveLeft, players, monsters,
                           spawnWarnings, grenades, grenadeTimer, goldDrops, hearts,
                           pendingPacks, pendingBosses, pendingGrenades,
                           extraPlanLeft, extraPlanRight, extraPlanSpawnedLeft,
                           extraPlanSpawnedRight, normalTarget, baseTarget,
                           baseSpawnedLeft, baseSpawnedRight, forcedBaseType,
                           leftReady, rightReady, fault, events>>

step(dt) ==
  /\ last' = (IF state = "GAME_OVER" THEN "idle" ELSE "run")
  /\ CASE state = "WEAPON_SELECT" -> updateWeaponSelect(dt) /\ UNCHANGED events
       [] state = "PLAYING" -> updatePlaying(dt)
       [] state = "SHOP" -> updateShop(dt) /\ UNCHANGED events
       [] OTHER -> UNCHANGED <<coreVars, fault, events>>

\* ----------------------------------------------------------------------
\* Specification
\* ----------------------------------------------------------------------
\* Nothing runs after an uncaught exception: the server has no handler, the
\* process ends.
Step == ~fault /\ UNCHANGED halves /\ \E dt \in DtSet : dtAllowed(dt) /\ step(dt)

ChooseWeapon ==
  /\ ~fault
  /\ UNCHANGED <<events, halves>>
  /\ \E id \in PlayerIds, w \in WeaponInputs : handleWeaponChoice(id, w)

\* A purchase that queues a pack, a boss or a grenade counts as an event.
ShopAction ==
  /\ ~fault
  /\ UNCHANGED halves
  /\ \E id \in PlayerIds, a \in ShopInputs : handleShopAction(id, a)
  /\ events' = events + (QueuedOf(pendingPacks', pendingBosses', pendingGrenades') - Queued)
  /\ events' <= MaxEvents

Ready == ~fault /\ UNCHANGED <<events, halves>> /\ \E id \in PlayerIds : handleReady(id)

Restart ==
  /\ ~fault
  /\ UNCHANGED halves
  /\ events' = (IF state = "GAME_OVER" THEN 0 ELSE events)
  /\ handleRestart

Close == ~fault /\ UNCHANGED <<events, halves>> /\ \E id \in PlayerIds : wsClose(id)

Next == Step \/ ChooseWeapon \/ ShopAction \/ Ready \/ Restart \/ Close

Spec == Init /\ [][Next]_vars

\* ----------------------------------------------------------------------
\* A match taken up late: the shop phase after the wave of round MaxRound
\* ----------------------------------------------------------------------
\* Spec does not run the wave of round MaxRound to its end and, within
\* MaxEvents, nobody earns the price of anything.  SpecLate starts where that
\* wave has just ended, with players who have fought: their kills, score,
\* gold and hp are values a match can have produced by then (at most 3 gold
\* per kill, 24 + 32 monsters per side in rounds 1 and 2, 12 hp per contact).

\* this.normalTarget once startNewRound has run for rounds 1..r
RECURSIVE normalTargetAfter(_)
normalTargetAfter(r) ==
  IF r = 0 THEN BASE_TARGET
  ELSE IF isBossRound(r) THEN normalTargetAfter(r - 1)
  ELSE ScaleTarget(normalTargetAfter(r - 1))

LateHp == {4, PLAYER_MAX_HP}

\* A player after 40 kills with a knife, every kill having dropped gold that
\* the player picked up, at the given hp.
LatePlayer(id, hp) ==
  [Player(id, SideOf(id)) EXCEPT
     !.hp = hp, !.gold = GOLD_PER_PICKUP * 40, !.score = 15 * 40,
     !.monstersKilled = 40, !.weaponType = "knife", !.weaponChosen = TRUE]

\* events starts below zero: MaxLateEvents events fit before MaxEvents is
\* reached (a restart puts it back to 0, as in Spec).
InitLate ==
  /\ \E h1 \in LateHp : players = <<LatePlayer(1, h1), LatePlayer(2, PLAYER_MAX_HP)>>
  /\ monsters = NoneBySide
  /\ spawnWarnings = NoneBySide
  /\ grenades = NoneBySide
  /\ grenadeTimer = 0
  /\ goldDrops = NoneBySide
  /\ hearts = NoneBySide
  /\ state = "SHOP"
  /\ winner = "null"
  /\ round = MaxRound
  /\ waveLeft = 0
  /\ shopLeft = SHOP_TIME
  /\ normalTarget = normalTargetAfter(MaxRound)
  /\ baseTarget = (IF isBossRound(MaxRound) THEN 1 ELSE normalTargetAfter(MaxRound))
  /\ baseSpawnedLeft = baseTarget
  /\ baseSpawnedRight = baseTarget
  /\ pendingPacks = BySide(NoPacks, NoPacks)
  /\ pendingBosses = BySide(<<>>, <<>>)
  /\ pendingGrenades = NoneBySide
  /\ extraPlanLeft = <<>>
  /\ extraPlanRight = <<>>
  /\ extraPlanSpawnedLeft = 0
  /\ extraPlanSpawnedRight = 0
  /\ leftReady = FALSE
  /\ rightReady = FALSE
  /\ forcedBaseType = (IF isBossRound(MaxRound) THEN bossTypeForRound(MaxRound) ELSE "null")
  /\ fault = FALSE
  /\ last = "run"
  /\ events = MaxEvents - MaxLateEvents
  /\ HalvesStart

\* dt values SpecLate passes: the shop phase of round MaxRound and the wave
\* after it are run to their ends, the shop phase after that wave is not;
\* after a restart the first wave is not run to its end.  Short ticks are
\* taken in waves only.
dtAllowedLate(dt) ==
  CASE state = "PLAYING" ->
         /\ dt = FineDt => FineTicksIn(WAVE_TIME, waveLeft) < MaxFineTicks
         /\ waveEnds(dt) => round = MaxRound + 1
    [] state = "SHOP" ->
         /\ dt # FineDt
         /\ (shopLeft - dt <= 0 \/ (leftReady /\ rightReady)) => round = MaxRound
    [] OTHER -> TRUE

StepLate == ~fault /\ UNCHANGED halves /\ \E dt \in DtSet : dtAllowedLate(dt) /\ step(dt)

\* With gold to spend every purchase counts as an event, an upgrade or a
\* heal as well as a pack, a boss or a grenade.
ShopActionLate ==
  /\ ~fault
  /\ UNCHANGED halves
  /\ \E id \in PlayerIds, a \in ShopInputs : handleShopAction(id, a)
  /\ events' = events + (IF UNCHANGED <<players, pendingPacks, pendingBosses,
                                         pendingGrenades>>
                         THEN 0 ELSE 1)
  /\ events' <= MaxEvents

\* Connections stay open in SpecLate: a player falls by hits only.
NextLate == StepLate \/ ChooseWeapon \/ ShopActionLate \/ Ready \/ Restart

SpecLate == InitLate /\ [][NextLate]_vars

\* ----------------------------------------------------------------------
\* A shop phase with gold to spend
\* ----------------------------------------------------------------------
\* SpecShop takes the match up where SpecLate does, with every kind of
\* purchase on offer and players who may have upgraded their weapon in the
\* shop phases before.
MaxShopEvents == 2     \* purchases, hits and kills in SpecShop

\* action payloads of shopAction in SpecShop
ShopGoods ==
  {"upgrade_weapon", "heal", "send:slime", "send:fast", "send:tank",
   "send:spitter", "send:toString", "send_boss", "send_grenade"}

\* weaponLevel after none and after three upgrades
ShopLevels == {1, MAX_WEAPON_LEVEL - 1}

\* The shop phase after the wave of round MaxRound has just begun, with the
\* given players and the given count of events.
ShopStart(pl, ev) ==
  /\ players = pl
  /\ monsters = NoneBySide
  /\ spawnWarnings = NoneBySide
  /\ grenades = NoneBySide
  /\ grenadeTimer = 0
  /\ goldDrops = NoneBySide
  /\ hearts = NoneBySide
  /\ state = "SHOP"
  /\ winner = "null"
  /\ round = MaxRound
  /\ waveLeft = 0
  /\ shopLeft = SHOP_TIME
  /\ normalTarget = normalTargetAfter(MaxRound)
  /\ baseTarget = (IF isBossRound(MaxRound) THEN 1 ELSE normalTargetAfter(MaxRound))
  /\ baseSpawnedLeft = baseTarget
  /\ baseSpawnedRight = baseTarget
  /\ pendingPacks = BySide(NoPacks, NoPacks)
  /\ pendingBosses = BySide(<<>>, <<>>)
  /\ pendingGrenades = NoneBySide
  /\ extraPlanLeft = <<>>
  /\ extraPlanRight = <<>>
  /\ extraPlanSpawnedLeft = 0
  /\ extraPlanSpawnedRight = 0
  /\ leftReady = FALSE
  /\ rightReady = FALSE
  /\ forcedBaseType = (IF isBossRound(MaxRound) THEN bossTypeForRound(MaxRound) ELSE "null")
  /\ fault = FALSE
  /\ last = "run"
  /\ events = ev
  /\ HalvesStart

InitShop ==
  \E l1 \in ShopLevels :
    ShopStart(<<[LatePlayer(1, PLAYER_MAX_HP) EXCEPT !.weaponLevel = l1],
                LatePlayer(2, PLAYER_MAX_HP)>>,
              MaxEvents - MaxShopEvents)

Purchase ==
  /\ ~fault
  /\ UNCHANGED halves
  /\ \E id \in PlayerIds, a \in ShopGoods : handleShopAction(id, a)
  /\ events' = events + (IF UNCHANGED <<players, pendingPacks, pendingBosses,
                                         pendingGrenades>>
                         THEN 0 ELSE 1)
  /\ events' <= MaxEvents

\* SpecShop passes long ticks only: one ends the shop phase of round
\* MaxRound, two end the wave after it, and the shop phase after that wave is
\* not run to its end.
StepShop ==
  /\ ~fault
  /\ UNCHANGED halves
  /\ state = "SHOP" => round = MaxRound
  /\ step(LongDt)

NextShop == StepShop \/ Purchase

SpecShop == InitShop /\ [][NextShop]_vars

\* ----------------------------------------------------------------------
\* Shop phases in which grenades are bought
\* ----------------------------------------------------------------------
\* The gold of a player and the limit of a shop phase bound the grenades:
\* SpecGrenades counts no events, so nobody is hit by a monster or kills one.
InitGrenades ==
  ShopStart(<<LatePlayer(1, PLAYER_MAX_HP), LatePlayer(2, PLAYER_MAX_HP)>>, MaxEvents)

BuyGrenade ==
  /\ ~fault
  /\ UNCHANGED <<events, halves>>
  /\ \E id \in PlayerIds : handleShopAction(id, "send_grenade")

\* The shop phase of round MaxRound and the wave after it are run to their
\* ends by long ticks, the shop phase after that wave is not.
StepGrenades ==
  /\ ~fault
  /\ UNCHANGED halves
  /\ state = "SHOP" => round = MaxRound
  /\ step(LongDt)

NextGrenades == StepGrenades \/ BuyGrenade

SpecGrenades == InitGrenades /\ [][NextGrenades]_vars

\* ----------------------------------------------------------------------
\* A long match
\* ----------------------------------------------------------------------
\* SpecRounds runs a match from the weapon selection through the boss rounds
\* 5, 10 and 15; the wave of round MaxQuotaRound is not run to its end.
\* Nobody buys, is hit or leaves.
MaxQuotaRound == 15

StepRounds ==
  /\ ~fault
  /\ UNCHANGED halves
  /\ \E dt \in DtSet :
       /\ state = "PLAYING" =>
            /\ dt = FineDt => FineTicksIn(WAVE_TIME, waveLeft) < MaxFineTicks
            /\ waveEnds(dt) => round < MaxQuotaRound
       /\ state = "SHOP" => dt # FineDt
       /\ step(dt)

NextRounds == StepRounds \/ ChooseWeapon \/ Ready

SpecRounds == Init /\ [][NextRounds]_vars

\* ----------------------------------------------------------------------
\* A match with any weapon payload
\* ----------------------------------------------------------------------
\* weaponType payloads of chooseWeapon, with a property name that
\* WEAPON_CONFIG inherits from Object.prototype.
WeaponPayloads == WeaponInputs \cup {"toString"}

ChooseWeaponAny ==
  /\ ~fault
  /\ UNCHANGED <<events, halves>>
  /\ \E id \in PlayerIds, w \in WeaponPayloads : handleWeaponChoice(id, w)

NextAnyWeapon == Step \/ ChooseWeaponAny \/ ShopAction \/ Ready \/ Restart \/ Close

SpecAnyWeapon == Init /\ [][NextAnyWeapon]_vars

\* ----------------------------------------------------------------------
\* Movement in one half of the arena
\* ----------------------------------------------------------------------
MaxArenaTicks == 2        \* ticks taken in SpecArena

\* dt values of SpecArena, in units of 0.05 s: 0, one unit and a long tick.
ArenaDts == {0, 1, LongDt}

\* inputs[p.id]: the four direction keys
KeyStates == [up : BOOLEAN, down : BOOLEAN, left : BOOLEAN, right : BOOLEAN]

\* Where a spawn warning puts its monster: x from the padded width of the
\* half, y from the padding to 0.4 of the screen height (the ends of both
\* ranges).
SpawnXs(side) ==
  LET xMin == IF side = "left" THEN ARENA_PADDING ELSE FENCE_X + ARENA_PADDING
      xMax == IF side = "left" THEN FENCE_X - ARENA_PADDING
                               ELSE SCREEN_WIDTH - ARENA_PADDING
  IN {xMin, xMax}

SpawnYs == {ARENA_PADDING, (SCREEN_HEIGHT * 4) \div 10}

\* Direction cosines (in tenths) of the line from a monster to its target: the
\* model chooses among these instead of taking a square root, one choice for
\* all monsters of a tick.
Cosines == {<<0, 10>>, <<6, 8>>, <<10, 0>>}

Sign(v) == IF v > 0 THEN 1 ELSE IF v < 0 THEN -1 ELSE 0

\* The player loop's movement: the keys give dx and dy, the vector is
\* normalised (a diagonal has components 0.7071) and scaled by speed and dt,
\* then the position is clamped to the half.
movePlayer(a, dt, inp) ==
  LET dx == (IF inp.right THEN 1 ELSE 0) - (IF inp.left THEN 1 ELSE 0)
      dy == (IF inp.down THEN 1 ELSE 0) - (IF inp.up THEN 1 ELSE 0)
      travel == (PLAYER_SPEED * dt) \div 20
      along == IF dx # 0 /\ dy # 0 THEN (travel * 7071) \div 10000 ELSE travel
      minX == IF a.side = "left" THEN ARENA_PADDING + PLAYER_SIZE \div 2
                                 ELSE FENCE_X + ARENA_PADDING + PLAYER_SIZE \div 2
      maxX == IF a.side = "left" THEN FENCE_X - ARENA_PADDING - PLAYER_SIZE \div 2
                                 ELSE SCREEN_WIDTH - ARENA_PADDING - PLAYER_SIZE \div 2
      minY == ARENA_PADDING + PLAYER_SIZE \div 2
      maxY == SCREEN_HEIGHT - ARENA_PADDING - PLAYER_SIZE \div 2
  IN [a EXCEPT !.x = clamp(a.x + dx * along, minX, maxX),
               !.y = clamp(a.y + dy * along, minY, maxY)]

\* The monster loop's movement: without a living player in its half the
\* monster is skipped; else it moves towards the player and is clamped to the
\* half, its radius away from the padding.
moveMonster(m, a, dt, cos) ==
  IF ~a.alive THEN m
  ELSE
    LET travel == (m.speed * dt) \div 20
        x1 == m.x + Sign(a.x - m.x) * ((travel * cos[1]) \div 10)
        y1 == m.y + Sign(a.y - m.y) * ((travel * cos[2]) \div 10)
        minX == IF a.side = "left" THEN ARENA_PADDING + m.radius
                                   ELSE FENCE_X + ARENA_PADDING + m.radius
        maxX == IF a.side = "left" THEN FENCE_X - ARENA_PADDING - m.radius
                                   ELSE SCREEN_WIDTH - ARENA_PADDING - m.radius
        minY == ARENA_PADDING + m.radius
        maxY == SCREEN_HEIGHT - ARENA_PADDING - m.radius
    IN [m EXCEPT !.x = clamp(x1, minX, maxX), !.y = clamp(y1, minY, maxY)]

\* The positions of a tick, in the order of updatePlaying: the player moves,
\* a spawn warning may become a monster, the monsters move; the player may
\* fall afterwards in the tick.
tickArena(dt, inp, spawn, cos, falls) ==
  LET a1 == movePlayer(arena, dt, inp)
      mon1 == IF spawn = <<>> THEN a1.mon ELSE Append(a1.mon, spawn[1])
      mon2 == [i \in 1..Len(mon1) |-> moveMonster(mon1[i], a1, dt, cos)]
  IN arena' = [a1 EXCEPT !.mon = mon2, !.alive = a1.alive /\ ~falls,
                          !.ticks = a1.ticks + 1]

InitArena ==
  /\ CoreStart
  /\ \E side \in Sides, alive \in BOOLEAN : arena = ArenaStart(side, alive)
  /\ combat = CombatStart(PLAYER_MAX_HP, "knife", <<>>)
  /\ wave = <<>>
  /\ greenPotions = NoneBySide
  /\ clock = <<>>
  /\ field = <<>>

TickArena ==
  /\ arena.ticks < MaxArenaTicks
  /\ \E dt \in ArenaDts :
     \E inp \in (IF dt > 0 THEN KeyStates
                 ELSE {[up |-> FALSE, down |-> FALSE, left |-> FALSE, right |-> FALSE]}) :
       \E spawn \in {<<>>} \cup
                    {<<[x |-> x, y |-> y, radius |-> k.radius, speed |-> k.speed]>> :
                       x \in SpawnXs(arena.side), y \in SpawnYs, k \in MonsterKinds} :
         /\ spawn # <<>> => arena.mon = <<>>     \* one monster is followed
         /\ \E cos \in (IF arena.alive /\ dt > 0 /\ (arena.mon # <<>> \/ spawn # <<>>)
                         THEN Cosines ELSE {<<10, 0>>}),
                falls \in (IF arena.alive THEN BOOLEAN ELSE {FALSE}) :
              tickArena(dt, inp, spawn, cos, falls)
  /\ UNCHANGED <<coreVars, fault, last, events, combat, wave, greenPotions, clock, field>>

NextArena == TickArena

SpecArena == InitArena /\ [][NextArena]_vars

\* ----------------------------------------------------------------------
\* The keys in every phase
\* ----------------------------------------------------------------------
\* SpecKeys runs the core together with the position of the left player:
\* step is called with any keys in any phase, by the server's game loop and
\* by a caller that passes the keys as they are.  Nobody buys or is hit; a
\* connection that closes ends the match.  The player moves in at most
\* MaxArenaTicks ticks, the keys are up in the ticks after.

\* emptyInput() of the server; the core reads a missing record as no key down.
emptyInput == [up |-> FALSE, down |-> FALSE, left |-> FALSE, right |-> FALSE]

\* effectiveInputs of the game loop
effectiveInputs(st, inputs) == IF st = "PLAYING" THEN inputs ELSE emptyInput

\* Variant: the player loop runs in every phase.
stepHalf_AnyPhase(st, a, dt, inp) ==
  IF inp # emptyInput
  THEN [movePlayer(a, dt, inp) EXCEPT !.ticks = a.ticks + 1]
  ELSE a

\* What step(dt, inputs) does to the position: the player loop belongs to
\* updatePlaying, the other phases do not touch x and y.  A tick with a key
\* down is counted.
stepHalf(st, a, dt, inp) ==
  IF st = "PLAYING" /\ inp # emptyInput
  THEN [movePlayer(a, dt, inp) EXCEPT !.ticks = a.ticks + 1]
  ELSE a

KeysNow == IF arena.ticks < MaxArenaTicks THEN KeyStates ELSE {emptyInput}

\* dt values of SpecKeys: no tick and the long tick; the first wave is run to
\* its end, the second is not.
dtAllowedKeys(dt) == dt # FineDt /\ (state = "PLAYING" /\ waveEnds(dt) => round = 1)

\* game.step(dt, inputs) with the keys as they are
StepKeys ==
  /\ ~fault
  /\ UNCHANGED <<combat, wave, greenPotions, clock, field>>
  /\ \E dt \in DtSet, inp \in KeysNow :
       /\ dtAllowedKeys(dt)
       /\ step(dt)
       /\ arena' = stepHalf(state, arena, dt, inp)

\* The game loop: game.step(1 / TICK_RATE, effectiveInputs)
ServerTick ==
  /\ ~fault
  /\ UNCHANGED <<combat, wave, greenPotions, clock, field>>
  /\ \E dt \in DtSet, inp \in KeysNow :
       /\ dtAllowedKeys(dt)
       /\ step(dt)
       /\ arena' = stepHalf(state, arena, dt, effectiveInputs(state, inp))

NextKeys == StepKeys \/ ServerTick \/ ChooseWeapon \/ Close

SpecKeys == Init /\ [][NextKeys]_vars

\* ----------------------------------------------------------------------
\* Firing and bullets in one half of the arena
\* ----------------------------------------------------------------------
MaxCombatTicks == 3       \* ticks taken in SpecCombat

\* dt values of SpecCombat, in units of 0.05 s.
CombatDts == {0, 1, FineDt}


\* The mark of a bullet that has left the bounds (no monster has id 0).
OutOfBounds == {0}

\* Variant: canShoot looks at the timer only.
canShoot_TimerOnly(c) == c.weaponTimer <= 0

\* Player.canShoot
canShoot(c) == c.weaponTimer <= 0 /\ c.hp > 0

\* new Bullet(...): damage is the weapon's damage (no enrage), pierce from the
\* weapon type.
Bullet(weaponType) ==
  [pierce0 |-> PierceOf(weaponType), pierce |-> PierceOf(weaponType),
   lifetime |-> BULLET_LIFETIME, damage |-> WEAPON_DAMAGE(weaponType),
   damaged |-> {}, dead |-> FALSE]

\* The filters at the end: the bullets marked dead leave (gone holds them,
\* after those the lifetime and bounds filter removed), the monsters with
\* hp 0 leave.  r is what the collision loop returns.
finishCombat(c, timer, fired, culled, r) ==
  combat' = [c EXCEPT !.weaponTimer = timer,
                      !.bullets = SelectSeq(r[1], LAMBDA b : ~b.dead),
                      !.gone = culled \o SelectSeq(r[1], LAMBDA b : b.dead),
                      !.mons = SelectSeq(r[2], LAMBDA m : m.hp > 0),
                      !.fired = fired,
                      !.targets = Len(c.mons),
                      !.ticks = c.ticks + 1]

\* m.takeDamage(b.damage) for the monsters at the positions in hit.
RECURSIVE damageAll(_, _, _, _)
damageAll(ms, k, hit, damage) ==
  IF k > Len(ms) THEN <<>>
  ELSE <<IF k \in hit THEN [ms[k] EXCEPT !.hp = Max(0, @ - damage)] ELSE ms[k]>>
         \o damageAll(ms, k + 1, hit, damage)

\* The collision loop from bullet i on: reach[i] are the monsters within
\* reach of bullet i; each of them that is alive takes the damage and counts
\* as a hit, and after the inner loop the bullet is marked dead if
\* pierce <= 0, else pierce -= hits.  The result is the bullets from i on,
\* followed by the monsters.
RECURSIVE collide(_, _, _, _)
collide(bs, ms, reach, i) ==
  IF i > Len(bs) THEN <<<<>>, ms>>
  ELSE
    LET b == bs[i]
        hit == {k \in 1..Len(ms) : ms[k].hp > 0 /\ ms[k].id \in reach[i]}
        hits == Cardinality(hit)
        b1 == [b EXCEPT !.damaged = @ \cup {ms[k].id : k \in hit},
                        !.dead = hits > 0 /\ b.pierce <= 0,
                        !.pierce = IF hits > 0 /\ b.pierce > 0 THEN @ - hits ELSE @]
        rest == collide(bs, damageAll(ms, 1, hit, b.damage), reach, i + 1)
    IN <<<<b1>> \o rest[1], rest[2]>>

\* b.lifetime -= dt for every bullet
RECURSIVE ageAll(_, _)
ageAll(bs, dt) ==
  IF bs = <<>> THEN <<>>
  ELSE <<[Head(bs) EXCEPT !.lifetime = @ - dt]>> \o ageAll(Tail(bs), dt)

\* The filter on lifetime and bounds: a bullet that fails it is marked dead
\* and meets no monster.
RECURSIVE cull(_, _, _)
cull(bs, ov, k) ==
  IF k > Len(bs) THEN <<>>
  ELSE <<[bs[k] EXCEPT !.dead = ~(bs[k].lifetime > 0 /\ ov[k] # OutOfBounds)]>>
         \o cull(bs, ov, k + 1)

\* The fight of a tick, in the order of updatePlaying: the weapon timer runs,
\* the player aims at the nearest living monster of the half and fires if
\* there is one and canShoot, the bullets fly, the bullets meet the monsters,
\* dead bullets and dead monsters are filtered out.  ov[k] is OutOfBounds
\* for a bullet that has left the bounds, else the ids of the monsters
\* within its reach.
tickCombat(dt, ov) ==
  LET c == combat
      timer1 == IF c.weaponTimer > 0 THEN c.weaponTimer - dt ELSE c.weaponTimer
      target == Len(c.mons) > 0
      fires == target /\ canShoot([c EXCEPT !.weaponTimer = timer1])
      timer2 == IF fires THEN WEAPON_COOLDOWN(c.weaponType) ELSE timer1
      b1 == IF fires THEN Append(c.bullets, Bullet(c.weaponType)) ELSE c.bullets
      b2 == cull(ageAll(b1, dt), ov, 1)
      inFlight == SelectSeq(b2, LAMBDA b : ~b.dead)
      culled == SelectSeq(b2, LAMBDA b : b.dead)
      reach == SelectSeq(ov, LAMBDA o : o # OutOfBounds)
  IN finishCombat(c, timer2, Len(b1) - Len(c.bullets), culled,
                  collide(inFlight, c.mons, reach, 1))

\* The monsters of the half when the fight begins: none, one, or two, with
\* an hp one knife hit away from 0 or the base hp of round 1.
MonsterSeqs ==
  {<<>>, <<[id |-> 1, hp |-> 10]>>, <<[id |-> 1, hp |-> 60]>>,
   <<[id |-> 1, hp |-> 10], [id |-> 2, hp |-> 60]>>,
   <<[id |-> 1, hp |-> 60], [id |-> 2, hp |-> 60]>>}

InitCombat ==
  /\ CoreStart
  /\ arena = ArenaStart("left", TRUE)
  /\ \E hp \in {0, PLAYER_MAX_HP}, w \in {"knife", "bow"}, mons \in MonsterSeqs :
       combat = CombatStart(hp, w, mons)
  /\ wave = <<>>
  /\ greenPotions = NoneBySide
  /\ clock = <<>>
  /\ field = <<>>

\* n is the number of bullets when they fly: a bullet is fired when the half
\* has a monster.  A bullet meets monsters only if it stays in flight.
TickCombat ==
  /\ combat.ticks < MaxCombatTicks
  /\ \E dt \in CombatDts :
       LET n == Len(combat.bullets) + (IF combat.mons = <<>> THEN 0 ELSE 1)
           ids == {combat.mons[k].id : k \in 1..Len(combat.mons)}
           fates == {s \in SUBSET (ids \cup OutOfBounds) :
                       s = OutOfBounds \/ s \cap OutOfBounds = {}}
       IN \E ov \in [1..n -> fates] : tickCombat(dt, ov)
  /\ UNCHANGED <<coreVars, fault, last, events, arena, wave, greenPotions, clock, field>>

NextCombat == TickCombat

SpecCombat == InitCombat /\ [][NextCombat]_vars

\* ----------------------------------------------------------------------
\* The spawns of one wave
\* ----------------------------------------------------------------------
\* wave holds what the spawn blocks of updatePlaying read and write, for both
\* sides, with the timers of the code: the wave countdown, the baseline
\* cooldowns and counters, the reinforcement plans with their cooldowns and
\* counters, the spawn warnings as records [id, side, type, x, y, timer,
\* extra, shown] and the monsters as a count per side.  History: extra (the
\* warning stands for a plan entry), shown (the time of PLAYING ticks the
\* warning has been in the collection), born (the monsters the last tick
\* created, each with the warning it was made from), arrived (plan entries
\* that have become monsters), converted (ids of the warnings that have
\* become monsters), kills (for MaxWaveKills) and seed.
\* Times are in units of 1/60000 s, Fine(t) being t units of 0.05 s; the
\* rounding of binary fractions is not represented.  Math.random is a
\* sequence fixed by the seed: the type and the place of a warning follow
\* from its id.  Monsters leave the collection by kills chosen by \E (hits
\* and contacts together); both players stay alive.
MaxWaveKills == 1      \* monsters removed in one wave of SpecWave
MaxWavePacks == 10     \* packs of slimes bought for one wave (100 gold)

BASE_SPAWN_INTERVAL == 19
MIN_SPAWN_INTERVAL == 5
SPAWN_INTERVAL_DECAY == 45      \* 0.045, in thousandths
TICK_RATE == 60

Fine(t) == 3000 * t

\* 1 / TICK_RATE, the dt of the game loop
ServerDt == Fine(20) \div TICK_RATE

\* this.spawnInterval of startNewRound
spawnIntervalFor(r) ==
  IF isBossRound(r) THEN Fine(32)
  ELSE LET factor == Max(0, 1000 - (r - 1) * SPAWN_INTERVAL_DECAY)
           interval == Fine(MIN_SPAWN_INTERVAL)
                         + (factor * Fine(BASE_SPAWN_INTERVAL - MIN_SPAWN_INTERVAL)) \div 1000
       IN Max(Fine(MIN_SPAWN_INTERVAL), interval)

\* The wave of round r as startNewRound leaves it, with the given plans.
WaveStart(r, planLeft, planRight, seed) ==
  [phase |-> "PLAYING", round |-> r, waveLeft |-> Fine(WAVE_TIME),
   baseTarget |-> (IF isBossRound(r) THEN 1 ELSE normalTargetAfter(r)),
   forced |-> (IF isBossRound(r) THEN bossTypeForRound(r) ELSE "null"),
   spawnInterval |-> spawnIntervalFor(r),
   spawnCd |-> (IF isBossRound(r) THEN BySide(Fine(4), Fine(4))
                ELSE BySide(Fine(5), Fine(5))),
   baseSpawned |-> NoneBySide,
   plan |-> BySide(planLeft, planRight),
   extraSpawned |-> NoneBySide,
   extraCd |-> BySide(Fine(7), Fine(7)),
   warnings |-> <<>>, nextWarnId |-> 1,
   monsters |-> NoneBySide,
   seed |-> seed, born |-> <<>>, arrived |-> NoneBySide, converted |-> {},
   kills |-> 0]

\* new SpawnWarning(id, side, type, round) as spawnWarningOnSide makes it: the
\* weighted draw of the type unless a type is forced, the place by randomRange.
SpawnWarning(w, side, forcedType, extra) ==
  LET id == w.nextWarnId
      draw == (id + w.seed) % 4
      type == IF forcedType # "null" THEN forcedType
              ELSE CASE draw = 0 -> "slime" [] draw = 1 -> "fast"
                     [] draw = 2 -> "tank" [] OTHER -> "spitter"
      xMin == IF side = "left" THEN ARENA_PADDING ELSE FENCE_X + ARENA_PADDING
      xMax == IF side = "left" THEN FENCE_X - ARENA_PADDING
                               ELSE SCREEN_WIDTH - ARENA_PADDING
  IN [id |-> id, side |-> side, type |-> type,
      x |-> (IF (id + w.seed) % 2 = 0 THEN xMin ELSE xMax),
      y |-> (IF (id + w.seed) % 3 = 0 THEN ARENA_PADDING
             ELSE (SCREEN_HEIGHT * 4) \div 10),
      timer |-> Fine(TELEGRAPH), extra |-> extra, shown |-> 0]

spawnWarningOnSide(w, side, forcedType, extra) ==
  [w EXCEPT !.warnings = Append(@, SpawnWarning(w, side, forcedType, extra)),
            !.nextWarnId = @ + 1]

\* this.monsters.length
monsterCount(w) == w.monsters["left"] + w.monsters["right"]

spawnBaseMonster(w, side) ==
  IF monsterCount(w) >= MAX_MONSTERS THEN w
  ELSE [spawnWarningOnSide(w, side, w.forced, FALSE) EXCEPT !.baseSpawned[side] = @ + 1]

\* Variant: the baseline spawns go on past the target.
spawnBaseForSide_NoTarget(w, side, dt) ==
  IF w.spawnCd[side] - dt <= 0
  THEN [spawnBaseMonster(w, side) EXCEPT !.spawnCd[side] = w.spawnInterval]
  ELSE [w EXCEPT !.spawnCd[side] = @ - dt]

\* The baseline block of one side.
spawnBaseForSide(w, side, dt) ==
  IF w.baseSpawned[side] < w.baseTarget
  THEN IF w.spawnCd[side] - dt <= 0
       THEN [spawnBaseMonster(w, side) EXCEPT !.spawnCd[side] = w.spawnInterval]
       ELSE [w EXCEPT !.spawnCd[side] = @ - dt]
  ELSE w

\* Variant: plan entries are warned of whatever the number of monsters.
spawnExtraForSide_NoCap(w, side, dt) ==
  IF w.extraSpawned[side] >= Len(w.plan[side]) THEN w
  ELSE IF w.extraCd[side] - dt > 0 THEN [w EXCEPT !.extraCd[side] = @ - dt]
  ELSE [spawnWarningOnSide(w, side, w.plan[side][w.extraSpawned[side] + 1], TRUE)
          EXCEPT !.extraSpawned[side] = @ + 1,
                 !.extraCd[side] = Max(Fine(5), (w.spawnInterval * 6) \div 10)]

\* spawnExtraForSide of updatePlaying.
spawnExtraForSide(w, side, dt) ==
  IF monsterCount(w) >= MAX_MONSTERS THEN w
  ELSE IF w.extraSpawned[side] >= Len(w.plan[side]) THEN w
  ELSE IF w.extraCd[side] - dt > 0 THEN [w EXCEPT !.extraCd[side] = @ - dt]
  ELSE [spawnWarningOnSide(w, side, w.plan[side][w.extraSpawned[side] + 1], TRUE)
          EXCEPT !.extraSpawned[side] = @ + 1,
                 !.extraCd[side] = Max(Fine(5), (w.spawnInterval * 6) \div 10)]

\* w.timer -= dt for every warning
RECURSIVE tickWarnings(_, _)
tickWarnings(ws, dt) ==
  IF ws = <<>> THEN <<>>
  ELSE <<[Head(ws) EXCEPT !.timer = @ - dt, !.shown = @ + dt]>>
         \o tickWarnings(Tail(ws), dt)

\* Variant: a warning is taken for due at half of its countdown.
warningDue_Early(warn) == warn.timer <= Fine(TELEGRAPH) \div 2

\* The test of the filter on the warnings.
warningDue(warn) == warn.timer <= 0

\* The monster spawnMonsterFromWarning pushes (hp and speed left out).
spawnMonsterFromWarning(warn) ==
  [side |-> warn.side, type |-> warn.type, x |-> warn.x, y |-> warn.y, warn |-> warn]

RECURSIVE spawnAll(_)
spawnAll(ws) ==
  IF ws = <<>> THEN <<>>
  ELSE <<spawnMonsterFromWarning(Head(ws))>> \o spawnAll(Tail(ws))

\* One tick of updatePlaying: the wave timer, the baseline spawns of both
\* sides, the reinforcement spawns of both sides, the warnings that are due
\* become monsters, and the monster of the chosen side that was brought to
\* hp 0 is filtered out.
tickWave(w, dt, kill) ==
  LET left1 == IF w.waveLeft - dt <= 0 THEN 0 ELSE w.waveLeft - dt
      w1 == [w EXCEPT !.waveLeft = left1,
                      !.phase = IF left1 = 0 THEN "SHOP" ELSE @]
      w2 == IF left1 > 0
            THEN spawnExtraForSide(
                   spawnExtraForSide(
                     spawnBaseForSide(spawnBaseForSide(w1, "left", dt), "right", dt),
                     "left", dt),
                   "right", dt)
            ELSE w1
      ticked == tickWarnings(w2.warnings, dt)
      due == SelectSeq(ticked, warningDue)
      on(s) == Len(SelectSeq(due, LAMBDA d : d.side = s))
      planned(s) == Len(SelectSeq(due, LAMBDA d : d.side = s /\ d.extra))
      mon(s) == w2.monsters[s] + on(s)
      killed(s) == IF kill = s /\ mon(s) > 0 THEN 1 ELSE 0
  IN [w2 EXCEPT !.warnings = SelectSeq(ticked, LAMBDA d : ~warningDue(d)),
                !.monsters = BySide(mon("left") - killed("left"),
                                    mon("right") - killed("right")),
                !.born = spawnAll(due),
                !.arrived = BySide(@["left"] + planned("left"),
                                   @["right"] + planned("right")),
                !.converted = @ \cup {due[i].id : i \in 1..Len(due)},
                !.kills = @ + killed("left") + killed("right")]

\* Packs of slimes the left player has bought for the wave.
WavePacks == {0, 1, MaxWavePacks}

\* The wave of round 1, before which nothing can have been bought, or the
\* wave of round MaxRound + 1 has just been started.
InitWave ==
  /\ CoreStart
  /\ arena = ArenaStart("left", TRUE)
  /\ combat = CombatStart(PLAYER_MAX_HP, "knife", <<>>)
  /\ greenPotions = NoneBySide
  /\ clock = <<>>
  /\ field = <<>>
  /\ \E r \in {1, MaxRound + 1}, seed \in {0, 1} :
       \E n \in (IF r = 1 THEN {0} ELSE WavePacks) :
         wave = WaveStart(r, <<>>, Rep("slime", SEND_MOB_AMOUNT("slime") * n), seed)

TickWave ==
  /\ wave.phase = "PLAYING"
  /\ \E kill \in (IF wave.kills < MaxWaveKills THEN {"none", "left", "right"}
                  ELSE {"none"}) :
       wave' = tickWave(wave, ServerDt, kill)
  /\ UNCHANGED <<coreVars, fault, last, events, arena, combat, greenPotions, clock, field>>

NextWave == TickWave

SpecWave == InitWave /\ [][NextWave]_vars

\* ----------------------------------------------------------------------
\* The potions on the ground
\* ----------------------------------------------------------------------
\* SpecPotions takes the match up where SpecLate does and follows the potion
\* pickups as well: greenPotions counts them per half.  The enrage timer a
\* pickup sets belongs to firing, which the core leaves to the choice of the
\* kills.

\* SpecPotions runs the shop phase of round MaxRound, the wave after it and
\* the shop phase after that wave to their ends, and the wave of round
\* MaxRound + 2 not to its end; short ticks are taken in waves only.
InitPotions ==
  ShopStart(<<LatePlayer(1, PLAYER_MAX_HP), LatePlayer(2, PLAYER_MAX_HP)>>,
            MaxEvents - MaxLateEvents)

\* step(dt) with this.greenPotions: in PLAYING every monster a bullet kills
\* may leave a potion (Math.random() < GREEN_POTION_DROP_CHANCE) and the
\* living player of a half may collect potions lying in it; the filter at
\* the end of the tick removes the collected ones.  Nothing else writes the
\* collection: startNewRound, which empties the other collections, does not
\* mention it, and a tick that throws does so before the bullets are looked
\* at.
StepPotions ==
  /\ ~fault
  /\ UNCHANGED <<arena, combat, wave, clock, field>>
  /\ \E dt \in DtSet :
       /\ dt = FineDt =>
            (state = "PLAYING" /\ FineTicksIn(WAVE_TIME, waveLeft) < MaxFineTicks)
       /\ (state = "PLAYING" /\ waveEnds(dt)) => round = MaxRound + 1
       /\ step(dt)
       /\ IF state = "PLAYING" /\ fault' = fault
          THEN LET killed(s) == players'[IdOf(s)].monstersKilled
                                  - players[IdOf(s)].monstersKilled
                   picks(s, lying) == IF dt > 0 /\ isAlive(players'[IdOf(s)])
                                      THEN 0..lying ELSE {0}
               IN \E dL \in 0..killed("left"), dR \in 0..killed("right") :
                  \E pL \in picks("left", greenPotions["left"] + dL),
                     pR \in picks("right", greenPotions["right"] + dR) :
                    greenPotions' = BySide(greenPotions["left"] + dL - pL,
                                           greenPotions["right"] + dR - pR)
          ELSE greenPotions' = greenPotions

SpecPotions == InitPotions /\ [][StepPotions]_vars

\* ----------------------------------------------------------------------
\* The phase and its countdowns
\* ----------------------------------------------------------------------
\* clock holds what decides when a phase ends, and nothing else: state,
\* waveLeft, shopLeft, the ready flags, who has chosen a weapon and who is
\* alive (hp > 0), the last two by side.  The round number is left out, no
\* countdown reads it, so SpecClock runs matches of any length.  A tick is a
\* call of step with one of the positive dt of DtSet; which players a tick
\* brings to hp 0 is chosen by \E.  turn is the parity of the calls of step
\* so far: a call that changes nothing else (GAME_OVER, a selection not
\* yet complete) is still a step of the loop.

\* Variant: the wave countdown stands still.
waveTimer_Stuck(waveLeftNow, dt) == waveLeftNow

\* this.waveLeft -= dt; if (this.waveLeft <= 0) this.waveLeft = 0
waveTimer(waveLeftNow, dt) == IF waveLeftNow - dt <= 0 THEN 0 ELSE waveLeftNow - dt

\* step(dt) on the clock: updateWeaponSelect, the wave timer and the
\* game-over check of updatePlaying, updateShop; falls are the sides whose
\* player the tick brings to hp 0.
stepClock(c, dt, falls) ==
  LET started == [c EXCEPT !.state = "PLAYING", !.waveLeft = WAVE_TIME]
  IN CASE c.state = "WEAPON_SELECT" ->
            IF c.chosen["left"] /\ c.chosen["right"] THEN started ELSE c
       [] c.state = "PLAYING" ->
            LET left1 == IF c.waveLeft > 0 THEN waveTimer(c.waveLeft, dt) ELSE c.waveLeft
                c1 == IF c.waveLeft > 0 /\ left1 = 0
                      THEN [c EXCEPT !.waveLeft = 0, !.state = "SHOP",
                                     !.shopLeft = SHOP_TIME,
                                     !.leftReady = FALSE, !.rightReady = FALSE]
                      ELSE [c EXCEPT !.waveLeft = left1]
                alive1 == BySide(c.alive["left"] /\ "left" \notin falls,
                                 c.alive["right"] /\ "right" \notin falls)
            IN [c1 EXCEPT !.alive = alive1,
                          !.state = IF alive1["left"] /\ alive1["right"]
                                    THEN @ ELSE "GAME_OVER"]
       [] c.state = "SHOP" ->
            IF c.shopLeft - dt <= 0 THEN [started EXCEPT !.shopLeft = 0]
            ELSE IF c.leftReady /\ c.rightReady
            THEN [started EXCEPT !.shopLeft = c.shopLeft - dt]
            ELSE [c EXCEPT !.shopLeft = c.shopLeft - dt]
       [] OTHER -> c

\* The clock of a new GameCore.
InitClock ==
  /\ CoreStart
  /\ arena = ArenaStart("left", TRUE)
  /\ combat = CombatStart(PLAYER_MAX_HP, "knife", <<>>)
  /\ wave = <<>>
  /\ greenPotions = NoneBySide
  /\ field = <<>>
  /\ clock = [state |-> "WEAPON_SELECT", waveLeft |-> WAVE_TIME, shopLeft |-> SHOP_TIME,
              leftReady |-> FALSE, rightReady |-> FALSE,
              chosen |-> BySide(FALSE, FALSE), alive |-> BySide(TRUE, TRUE),
              turn |-> 0]

\* One turn of the game loop.
TickClock ==
  /\ \E dt \in DtSet \ {0}, falls \in SUBSET Sides :
       /\ falls # {} => clock.state = "PLAYING"
       /\ clock' = [stepClock(clock, dt, falls) EXCEPT !.turn = 1 - @]
  /\ UNCHANGED <<coreVars, fault, last, events, arena, combat, wave, greenPotions, field>>

\* A message or a close of one client, as far as the clock goes: a weapon
\* choice, a ready or start_round, a restart, a closed connection.
MessageClock ==
  /\ \E s \in Sides, kind \in {"weapon", "ready", "restart", "close"} :
       clock' =
         CASE kind = "weapon" /\ clock.state = "WEAPON_SELECT" ->
                [clock EXCEPT !.chosen[s] = TRUE]
           [] kind = "ready" /\ clock.state = "SHOP" ->
                IF s = "left" THEN [clock EXCEPT !.leftReady = TRUE]
                ELSE [clock EXCEPT !.rightReady = TRUE]
           [] kind = "restart" /\ clock.state = "GAME_OVER" ->
                [clock EXCEPT !.state = "WEAPON_SELECT", !.waveLeft = WAVE_TIME,
                              !.shopLeft = SHOP_TIME,
                              !.leftReady = FALSE, !.rightReady = FALSE,
                              !.chosen = BySide(FALSE, FALSE),
                              !.alive = BySide(TRUE, TRUE)]
           [] kind = "close" /\ clock.state = "WEAPON_SELECT" ->
                [clock EXCEPT !.chosen[s] = FALSE]
           [] kind = "close" /\ clock.state = "PLAYING" ->
                [clock EXCEPT !.alive[s] = FALSE]
           [] OTHER -> clock
  /\ UNCHANGED <<coreVars, fault, last, events, arena, combat, wave, greenPotions, field>>

\* The game loop of the server calls step on every turn of its timer for as
\* long as the process runs.
SpecClock == InitClock /\ [][TickClock \/ MessageClock]_vars /\ WF_vars(TickClock)

\* ----------------------------------------------------------------------
\* Both halves with what can hurt in them
\* ----------------------------------------------------------------------
\* field holds both players and the monsters, enemy bullets and grenades of
\* both sides, with the ids the code gives them.  Everything is on the line
\* y = SCREEN_HEIGHT / 2, so that Math.hypot(dx, dy) is |dx|; the keys are
\* up (the players keep their place) and nobody fires a weapon (the players'
\* bullets are SpecCombat's).  hp and damage are in quarters of a point: the
\* falloff of a blast, damage * 0.6 * d / radius, is d / 4 points and so a
\* whole number of quarters.  Times are in units of 0.05 s.  The history
\* fields are hits, blasts, contacts, touching, inBlast and due (what the
\* last tick did and met), blown (the grenades that have exploded, in
\* order), ticks, and threw (the tick was left by a TypeError).
MaxFieldTicks == 3     \* ticks taken in SpecField

SPITTER_RANGE == 420
SPITTER_COOLDOWN == 25
SPITTER_COOLDOWN_JITTER == 7
SPITTER_PROJECTILE_SPEED == 420
ENEMY_BULLET_LIFETIME == 44

\* n points of hp in quarters
Pts(n) == 4 * n

\* Math.hypot(a.x - b.x, a.y - b.y) for two things on the line
hypot(a, b) == IF a.x < b.x THEN b.x - a.x ELSE a.x - b.x

\* A monster of round 1 as spawnMonsterFromWarning makes it: hp is
\* Math.max(10, Math.round(60 * hpMult)), speed Math.max(50, 90 * speedMult),
\* with the multipliers 1 and 1 (slime), 2.2 and 0.7 (tank), 1.1 and 0.8
\* (spitter).
FieldMonster(id, side, type, x, shotTimer) ==
  [id |-> id, side |-> side, type |-> type, x |-> x, y |-> SCREEN_HEIGHT \div 2,
   hp |-> Pts(CASE type = "tank" -> 132 [] type = "spitter" -> 66 [] OTHER -> 60),
   speed |-> (CASE type = "tank" -> 63 [] type = "spitter" -> 72 [] OTHER -> 90),
   radius |-> 34,
   shotTimer |-> IF type = "spitter" THEN shotTimer ELSE 0]

EnemyBullet(id, side, x, vx, damage) ==
  [id |-> id, side |-> side, x |-> x, y |-> SCREEN_HEIGHT \div 2, vx |-> vx,
   damage |-> damage, lifetime |-> ENEMY_BULLET_LIFETIME, dead |-> FALSE]

\* The spitters from monster k on: a living spitter with a living player on
\* its side runs its shot timer and, with the player in range and the timer
\* at 0 or below, pushes a projectile towards the player, m.radius + 6 away
\* from itself, and takes a new cooldown.
RECURSIVE spittersFire(_, _, _, _)
spittersFire(f, k, dt, jitter) ==
  IF k > Len(f.monsters) THEN f
  ELSE
    LET m == f.monsters[k]
        p == f.players[m.side]
    IN IF ~(m.hp > 0) \/ m.type # "spitter" \/ ~isAlive(p)
       THEN spittersFire(f, k + 1, dt, jitter)
       ELSE
         LET bestDist == hypot(p, m)
             timer1 == m.shotTimer - dt
             shoots == bestDist <= SPITTER_RANGE /\ timer1 <= 0
             dir == Sign(p.x - m.x)
             eb == EnemyBullet(f.nextEnemyBulletId, m.side,
                               m.x + dir * (m.radius + 6),
                               dir * SPITTER_PROJECTILE_SPEED,
                               Pts(SPITTER_PROJECTILE_DAMAGE))
             f1 == IF shoots
                   THEN [f EXCEPT !.monsters[k].shotTimer = SPITTER_COOLDOWN + jitter,
                                  !.enemyBullets = Append(@, eb),
                                  !.nextEnemyBulletId = @ + 1]
                   ELSE [f EXCEPT !.monsters[k].shotTimer = timer1]
         IN spittersFire(f1, k + 1, dt, jitter)

\* The collision loop from projectile k on: a projectile not yet dead
\* damages the first player that is alive, of its side and within 18 px,
\* and is marked dead.
RECURSIVE enemyBulletsHit(_, _)
enemyBulletsHit(f, k) ==
  IF k > Len(f.enemyBullets) THEN f
  ELSE
    LET eb == f.enemyBullets[k]
        struck == SelectSeq(<<"left", "right">>,
                            LAMBDA s : /\ isAlive(f.players[s])
                                       /\ f.players[s].side = eb.side
                                       /\ hypot(f.players[s], eb) <= 18)
    IN IF eb.dead \/ struck = <<>>
       THEN enemyBulletsHit(f, k + 1)
       ELSE LET s == Head(struck)
            IN enemyBulletsHit(
                 [f EXCEPT !.players[s] = takeDamage(@, eb.damage),
                           !.enemyBullets[k].dead = TRUE,
                           !.hits = Append(@, [bullet |-> eb.id, from |-> eb.side,
                                               on |-> s, hp |-> f.players[s].hp])],
                 k + 1)

\* Variant: the filter lets a projectile fly on past the fence.
keepEnemyBullet_PastFence(eb) ==
  /\ ~eb.dead /\ eb.lifetime > 0
  /\ eb.x >= -50 /\ eb.x <= SCREEN_WIDTH + 50
  /\ eb.y >= -50 /\ eb.y <= SCREEN_HEIGHT + 50

\* The filter on the enemy bullets.
keepEnemyBullet(eb) ==
  /\ ~eb.dead /\ eb.lifetime > 0
  /\ (IF eb.side = "left" THEN eb.x <= FENCE_X - 6 ELSE eb.x >= FENCE_X + 6)
  /\ eb.x >= -50 /\ eb.x <= SCREEN_WIDTH + 50
  /\ eb.y >= -50 /\ eb.y <= SCREEN_HEIGHT + 50

\* The blast of grenade g on the monsters from monster k on: m.hp -=
\* g.damage * (0.6 + 0.6 * t), t = 1 - d / g.radius, for every living monster
\* of the grenade's side within the radius; if (m.hp <= 0) m.isAlive = false
\* assigns to a property that has only a getter, in strict code: a
\* TypeError, and the loop, the grenade loop and the tick are left there.
RECURSIVE blastMonsters(_, _, _)
blastMonsters(f, g, k) ==
  IF k > Len(f.monsters) THEN f
  ELSE
    LET m == f.monsters[k]
        d == hypot(m, g)
        amount == (g.damage * (6 * g.radius + 6 * (g.radius - d))) \div (10 * g.radius)
        f1 == [f EXCEPT !.monsters[k].hp = @ - amount,
                        !.blasts = Append(@, [grenade |-> g.id, from |-> g.side,
                                              kind |-> "monster", id |-> m.id,
                                              on |-> m.side, d |-> d,
                                              loss |-> amount])]
    IN IF ~(m.hp > 0) \/ m.side # g.side \/ d > g.radius
       THEN blastMonsters(f, g, k + 1)
       ELSE IF m.hp - amount <= 0
       THEN [f1 EXCEPT !.threw = TRUE]
       ELSE blastMonsters(f1, g, k + 1)

\* The grenade loop from grenade k on: the fuse runs; a grenade with
\* g.timer <= 0 && !g._exploded is marked exploded, every living player of
\* its side within the radius takes g.damage * (0.4 + 0.6 * t), and then the
\* monsters.  inBlast notes the living monsters of the grenade's side within
\* the radius as the grenade goes off.
RECURSIVE grenadesTick(_, _, _)
grenadesTick(f, k, dt) ==
  IF k > Len(f.grenades) \/ f.threw THEN f
  ELSE
    LET g == [f.grenades[k] EXCEPT !.timer = @ - dt]
        met == {[grenade |-> g.id, id |-> f.monsters[i].id,
                 d |-> hypot(f.monsters[i], g)] :
                  i \in {j \in 1..Len(f.monsters) :
                           /\ f.monsters[j].hp > 0 /\ f.monsters[j].side = g.side
                           /\ hypot(f.monsters[j], g) <= g.radius}}
        onPlayer(h, s) ==
          LET p == h.players[s]
              d == hypot(p, g)
              amount == (g.damage * (4 * g.radius + 6 * (g.radius - d)))
                          \div (10 * g.radius)
          IN IF isAlive(p) /\ p.side = g.side /\ d <= g.radius
             THEN [h EXCEPT !.players[s] = takeDamage(@, amount),
                            !.blasts = Append(@, [grenade |-> g.id, from |-> g.side,
                                                  kind |-> "player", id |-> p.id,
                                                  on |-> s, d |-> d,
                                                  loss |-> p.hp - Max(0, p.hp - amount)])]
             ELSE h
    IN IF g.timer <= 0 /\ ~g.exploded
       THEN LET f1 == [f EXCEPT !.grenades[k] = [g EXCEPT !.exploded = TRUE],
                                !.blown = Append(@, g.id),
                                !.inBlast = @ \cup met]
            IN grenadesTick(blastMonsters(onPlayer(onPlayer(f1, "left"), "right"), g, 1),
                            k + 1, dt)
       ELSE grenadesTick([f EXCEPT !.grenades[k] = g], k + 1, dt)

\* Variant: a monster outlives the contact.
contactKills_Never(m) == m

\* m.takeDamage(9999)
contactKills(m) == [m EXCEPT !.hp = Max(0, @ - Pts(9999))]

\* The collisions of monsters and players from monster k on: a living
\* monster meets every player that is alive, of its side and within
\* m.radius + 18 px.
RECURSIVE contactsAll(_, _)
contactsAll(f, k) ==
  LET contact(h, s) ==
        LET m == h.monsters[k]
            p == h.players[s]
        IN IF isAlive(p) /\ p.side = m.side /\ hypot(p, m) <= m.radius + 18
           THEN [h EXCEPT !.players[s] = takeDamage(@, Pts(CONTACT_DAMAGE)),
                          !.monsters[k] = contactKills(@),
                          !.contacts = Append(@, [monster |-> m.id, from |-> m.side,
                                                  on |-> s])]
           ELSE h
  IN IF k > Len(f.monsters) THEN f
     ELSE IF ~(f.monsters[k].hp > 0) THEN contactsAll(f, k + 1)
     ELSE contactsAll(contact(contact(f, "left"), "right"), k + 1)

\* A tick of updatePlaying on the field, in the code's order: the living
\* monsters move towards the player of their side, the spitters fire, the
\* enemy bullets fly, hit and are filtered, the grenades go off and are
\* filtered, the monsters meet the players and are filtered, the game is
\* over if a player has fallen.  touching notes the living monsters in reach
\* of the living player of their side as the collisions begin.
tickField(f, dt, jitter) ==
  LET f0 == [f EXCEPT !.hits = <<>>, !.blasts = <<>>, !.contacts = <<>>,
                      !.touching = {}, !.inBlast = {},
                      !.due = {f.grenades[k].id : k \in
                                 {j \in 1..Len(f.grenades) : f.grenades[j].timer - dt <= 0}},
                      !.ticks = @ + 1]
      towards(m) == [alive |-> isAlive(f0.players[m.side]), x |-> f0.players[m.side].x,
                     y |-> f0.players[m.side].y, side |-> m.side]
      f1 == [f0 EXCEPT !.monsters =
               [k \in 1..Len(f0.monsters) |->
                  IF f0.monsters[k].hp > 0
                  THEN moveMonster(f0.monsters[k], towards(f0.monsters[k]), dt, <<10, 0>>)
                  ELSE f0.monsters[k]]]
      f2 == spittersFire(f1, 1, dt, jitter)
      flown == [k \in 1..Len(f2.enemyBullets) |->
                  [f2.enemyBullets[k] EXCEPT !.x = @ + (f2.enemyBullets[k].vx * dt) \div 20,
                                             !.lifetime = @ - dt]]
      f3 == enemyBulletsHit([f2 EXCEPT !.enemyBullets = flown], 1)
      f4 == [f3 EXCEPT !.enemyBullets = SelectSeq(@, keepEnemyBullet)]
      f5 == grenadesTick(f4, 1, dt)
      f6 == [f5 EXCEPT !.grenades = SelectSeq(@, LAMBDA g : ~g.exploded)]
      reach == {[id |-> f6.monsters[k].id, side |-> f6.monsters[k].side] :
                  k \in {j \in 1..Len(f6.monsters) :
                           /\ f6.monsters[j].hp > 0
                           /\ isAlive(f6.players[f6.monsters[j].side])
                           /\ hypot(f6.players[f6.monsters[j].side], f6.monsters[j])
                                <= f6.monsters[j].radius + 18}}
      f7 == contactsAll([f6 EXCEPT !.touching = reach], 1)
      f8 == [f7 EXCEPT !.monsters = SelectSeq(@, LAMBDA m : m.hp > 0)]
  IN IF f5.threw THEN f5
     ELSE [f8 EXCEPT !.over = ~isAlive(f8.players["left"]) \/ ~isAlive(f8.players["right"])]

\* The field in the middle of a wave.  The hostile things are in the half
\* of side s: up to two monsters, perhaps a grenade with its fuse new or
\* about to end, perhaps a projectile in flight towards the fence; the other
\* half has perhaps a slime close to the fence.  The player of side s has
\* full hp, is one contact from 0, or has hp 0 (the connection was closed
\* since the last tick).  The places are given as x of the left half and
\* mirrored for the right half.
InitField ==
  /\ CoreStart
  /\ arena = ArenaStart("left", TRUE)
  /\ combat = CombatStart(PLAYER_MAX_HP, "knife", <<>>)
  /\ wave = <<>>
  /\ greenPotions = NoneBySide
  /\ clock = <<>>
  /\ \E s \in Sides, hp \in {PLAYER_MAX_HP, CONTACT_DAMAGE, 0}, other \in BOOLEAN :
       LET across(side, x) == IF side = "left" THEN x ELSE SCREEN_WIDTH - x
           far == IF s = "left" THEN "right" ELSE "left"
           player(id, side, h) ==
             [id |-> id, side |-> side, x |-> across(side, FENCE_X - 100),
              y |-> SCREEN_HEIGHT \div 2, hp |-> Pts(h)]
           one == {[type |-> t, x |-> x] :
                     t \in {"slime", "tank", "spitter"}, x \in {200, 320, 426}}
           mk(i, c) == FieldMonster(i, s, c.type, across(s, c.x), 2)
           own == {<<>>} \cup {<<mk(1, c)>> : c \in one}
                         \cup {<<mk(1, c), mk(2, d)>> : c \in one, d \in one}
       IN \E ms \in own :
          \E gs \in {<<>>} \cup
                    {<<[id |-> 1, side |-> s, x |-> across(s, x),
                        y |-> SCREEN_HEIGHT \div 2, timer |-> t,
                        radius |-> GRENADE_RADIUS, damage |-> Pts(GRENADE_DAMAGE),
                        exploded |-> FALSE]>> : x \in {300, 460}, t \in {2, GRENADE_FUSE}},
             ebs \in {<<>>} \cup
                     {<<EnemyBullet(1, s, across(s, x),
                                    (IF s = "left" THEN 1 ELSE -1) * SPITTER_PROJECTILE_SPEED,
                                    Pts(SPITTER_PROJECTILE_DAMAGE))>> : x \in {170, 350}} :
            field = [players |-> BySide(player(1, "left", IF s = "left" THEN hp ELSE PLAYER_MAX_HP),
                                        player(2, "right", IF s = "right" THEN hp ELSE PLAYER_MAX_HP)),
                     monsters |-> IF other
                                  THEN Append(ms, FieldMonster(Len(ms) + 1, far, "slime",
                                                               across(far, 426), 0))
                                  ELSE ms,
                     enemyBullets |-> ebs, grenades |-> gs,
                     nextEnemyBulletId |-> Len(ebs) + 1,
                     over |-> FALSE, threw |-> FALSE, ticks |-> 0,
                     hits |-> <<>>, blasts |-> <<>>, contacts |-> <<>>,
                     touching |-> {}, inBlast |-> {}, due |-> {}, blown |-> <<>>]

\* A call of step(dt) in PLAYING with a dt of 0.1 s or of 1 s; the new
\* cooldown of a spitter that fires is 1.25 s plus Math.random() * 0.35 s.
TickField ==
  /\ ~fault /\ ~field.over /\ field.ticks < MaxFieldTicks
  /\ \E dt \in {2, FineDt}, jitter \in {0, SPITTER_COOLDOWN_JITTER - 1} :
       field' = tickField(field, dt, jitter)
  /\ fault' = field'.threw
  /\ UNCHANGED <<coreVars, last, events, arena, combat, wave, greenPotions, clock>>

SpecField == InitField /\ [][TickField]_vars

\* ----------------------------------------------------------------------
\* Properties
\* ----------------------------------------------------------------------

\* C1: across any sequence of step calls and actions the phase changes only
\* along WEAPON_SELECT -> PLAYING, PLAYING -> SHOP, SHOP -> PLAYING,
\* PLAYING -> GAME_OVER and, by a restart only, GAME_OVER -> WEAPON_SELECT.
C1_PhaseTransitions ==
  [][ state' # state =>
        \/ state = "WEAPON_SELECT" /\ state' = "PLAYING"
        \/ state = "PLAYING" /\ state' \in {"SHOP", "GAME_OVER"}
        \/ state = "SHOP" /\ state' = "PLAYING"
        \/ state = "GAME_OVER" /\ state' = "WEAPON_SELECT" /\ handleRestart ]_vars

\* A match that went through a shop phase into a second wave and ended there.
C1_Witness == state = "GAME_OVER" /\ round = 2

\* C2: the phase stays WEAPON_SELECT, whatever is called, until both players
\* have a registered weapon choice, and a step call with both choices
\* registered makes it PLAYING; nothing else starts the match.
C2_WaitsForBothChoices ==
  [][ state = "WEAPON_SELECT" =>
        LET both == players[1].weaponChosen /\ players[2].weaponChosen
            tick == \E dt \in DtSet : step(dt)
        IN /\ state' \in {"WEAPON_SELECT", "PLAYING"}
           /\ state' = "PLAYING" => (both /\ tick)
           /\ (both /\ state' # "PLAYING") => ~tick ]_vars

\* The first wave has just been started by the step after the second choice.
C2_Witness ==
  /\ state = "PLAYING" /\ round = 1 /\ waveLeft = WAVE_TIME
  /\ players[1].weaponChosen /\ players[2].weaponChosen

\* C3: chooseWeapon outside WEAPON_SELECT, shopAction and ready outside SHOP
\* and restart outside GAME_OVER leave every field of the core unchanged and
\* raise no error.
C3_WrongPhaseActionsIgnored ==
  [][ LET wrongPhaseCall ==
            \/ /\ state # "WEAPON_SELECT"
               /\ \E id \in PlayerIds, w \in WeaponInputs : handleWeaponChoice(id, w)
            \/ /\ state # "SHOP"
               /\ \E id \in PlayerIds, a \in ShopInputs : handleShopAction(id, a)
            \/ /\ state # "SHOP"
               /\ \E id \in PlayerIds : handleReady(id)
            \/ /\ state # "GAME_OVER"
               /\ handleRestart
      IN (UNCHANGED coreVars /\ ~fault') \/ ~wrongPhaseCall ]_vars

\* An action has just been turned away during a wave.
C3_Witness == last = "refused" /\ state = "PLAYING"

\* C4: each player's gold is a number >= 0 after every call, and a purchase
\* (upgrade, heal, send pack, send boss, send grenade) changes a player or a
\* queue only when the buyer's gold is a number >= the item's cost.
C4_GoldNumberNonNegative ==
  [][ LET cost(a) ==
            CASE CanonicalAction(a) = "upgrade_weapon" -> UPGRADE_COST
              [] CanonicalAction(a) = "heal" -> HEAL_COST
              [] CanonicalAction(a) = "send_boss" -> SEND_BOSS_COST
              [] CanonicalAction(a) = "send_grenade" -> GRENADE_COST
              [] IsSend(CanonicalAction(a))
                   /\ MobTypeOf(CanonicalAction(a)) \in MobTypes ->
                     SEND_MOB_COST(MobTypeOf(CanonicalAction(a)))
              [] OTHER -> -1
          mutated == ~UNCHANGED <<players, pendingPacks, pendingBosses, pendingGrenades>>
      IN /\ \A id \in PlayerIds : ~players'[id].goldNaN /\ players'[id].gold >= 0
         /\ \A id \in PlayerIds, a \in ShopInputs :
              (state = "SHOP" /\ mutated /\ handleShopAction(id, a)) =>
                /\ cost(a) >= 0
                /\ ~players[id].goldNaN
                /\ players[id].gold >= cost(a) ]_vars

\* C5: a purchase action in SHOP by a player whose gold is not at least the
\* cost of the item (there being no item of that name included) leaves the
\* whole state unchanged, and a purchase that changes anything takes exactly
\* the item's cost from the buyer's gold and leaves the other player alone.
C5_PurchaseExactCost ==
  [][ LET cost(a) ==
            CASE CanonicalAction(a) = "upgrade_weapon" -> UPGRADE_COST
              [] CanonicalAction(a) = "heal" -> HEAL_COST
              [] CanonicalAction(a) = "send_boss" -> SEND_BOSS_COST
              [] CanonicalAction(a) = "send_grenade" -> GRENADE_COST
              [] IsSend(CanonicalAction(a))
                   /\ MobTypeOf(CanonicalAction(a)) \in MobTypes ->
                     SEND_MOB_COST(MobTypeOf(CanonicalAction(a)))
              [] OTHER -> -1
          isPurchase(a) ==
            \/ CanonicalAction(a) \in {"upgrade_weapon", "heal", "send_boss", "send_grenade"}
            \/ IsSend(CanonicalAction(a))
      IN \A id \in PlayerIds, a \in ShopInputs :
           (state = "SHOP" /\ isPurchase(a) /\ handleShopAction(id, a)) =>
             IF cost(a) < 0 \/ players[id].goldNaN \/ players[id].gold < cost(a)
             THEN UNCHANGED coreVars
             ELSE \/ UNCHANGED coreVars
                  \/ /\ ~players'[id].goldNaN
                     /\ players'[id].gold = players[id].gold - cost(a)
                     /\ players'[3 - id] = players[3 - id] ]_vars

C7_WinnerIsSurvivor ==
  [][ (state = "PLAYING" /\ ~fault') =>
        LET dead(id) == players'[id].hp = 0
            tick == \E dt \in DtSet : step(dt)
            decided ==
              /\ (dead(1) /\ ~dead(2)) =>
                   (state' = "GAME_OVER" /\ winner' = players'[2].side)
              /\ (dead(2) /\ ~dead(1)) =>
                   (state' = "GAME_OVER" /\ winner' = players'[1].side)
              /\ (dead(1) /\ dead(2)) =>
                   (state' = "GAME_OVER" /\ winner' = "draw")
        IN decided \/ ~tick ]_vars

\* Both players were at hp = 0 at the end of the same tick.
C7_Witness ==
  /\ state = "GAME_OVER" /\ winner = "draw"
  /\ players[1].hp = 0 /\ players[2].hp = 0

\* C8: a step call in GAME_OVER, with any dt, leaves every field unchanged,
\* and the phase leaves GAME_OVER only by a restart.
C8_GameOverTerminal ==
  [][ state = "GAME_OVER" =>
        /\ (\E dt \in DtSet : step(dt)) => UNCHANGED <<coreVars, fault>>
        /\ state' # "GAME_OVER" => handleRestart ]_vars

\* A step call has just been made in GAME_OVER.
C8_Witness == last = "idle" /\ state = "GAME_OVER"

\* C9: restart in GAME_OVER leaves the core as a newly constructed one:
\* phase WEAPON_SELECT, round 1, winner unset, both players at full hp with
\* 0 gold, 0 score, 0 kills, weapon level 1 and no weapon chosen, every
\* entity collection empty, every pending queue and both reinforcement plans
\* empty, both ready flags false, both countdowns at their full length.
C9_RestartIsFresh ==
  [][ (state = "GAME_OVER" /\ handleRestart) =>
        /\ state' = "WEAPON_SELECT" /\ round' = 1 /\ winner' = "null"
        /\ waveLeft' = WAVE_TIME /\ shopLeft' = SHOP_TIME
        /\ \A id \in PlayerIds :
             /\ players'[id].hp = PLAYER_MAX_HP /\ players'[id].maxHp = PLAYER_MAX_HP
             /\ players'[id].gold = 0 /\ ~players'[id].goldNaN
             /\ players'[id].score = 0 /\ players'[id].monstersKilled = 0
             /\ players'[id].weaponLevel = 1
             /\ ~players'[id].weaponChosen /\ players'[id].weaponType = "null"
             /\ players'[id].grenadesBoughtThisRound = 0
        /\ \A s \in Sides :
             /\ monsters'[s] = 0 /\ spawnWarnings'[s] = 0 /\ grenades'[s] = 0
             /\ goldDrops'[s] = 0 /\ hearts'[s] = 0
             /\ pendingPacks'[s] = NoPacks
             /\ pendingBosses'[s] = <<>>
             /\ pendingGrenades'[s] = 0
        /\ extraPlanLeft' = <<>> /\ extraPlanRight' = <<>>
        /\ extraPlanSpawnedLeft' = 0 /\ extraPlanSpawnedRight' = 0
        /\ baseSpawnedLeft' = 0 /\ baseSpawnedRight' = 0
        /\ normalTarget' = BASE_TARGET /\ baseTarget' = BASE_TARGET
        /\ ~leftReady' /\ ~rightReady' ]_vars

\* A restart has just reset a match.
C9_Witness == last = "restart" /\ state = "WEAPON_SELECT" /\ round = 1

\* C10: a step call in SHOP makes the phase PLAYING exactly when the
\* countdown reaches zero in it or both ready flags are set, and the round
\* counter then goes up by exactly 1; the round counter changes in no other
\* call except a restart.
C10_ShopEndsOnce ==
  [][ /\ state = "SHOP" =>
           \A dt \in DtSet :
             step(dt) =>
               IF shopLeft - dt <= 0 \/ (leftReady /\ rightReady)
               THEN state' = "PLAYING" /\ round' = round + 1
               ELSE state' = "SHOP" /\ round' = round
      /\ round' # round =>
           \/ state = "SHOP" /\ state' = "PLAYING" /\ (\E dt \in DtSet : step(dt))
           \/ state = "GAME_OVER" /\ handleRestart ]_vars

\* The countdown reached zero in a tick in which both players were ready.
C10_Witness ==
  /\ state = "PLAYING" /\ round = 2
  /\ shopLeft = 0 /\ leftReady /\ rightReady


\* C11: whenever the phase becomes SHOP both ready flags are false, and a
\* ready flag becomes true only in a SHOP phase, through a ready signal of
\* that side's player (the ready message or the start_round shop action).
C11_ReadyFlagsFreshPerShop ==
  [][ LET signal(id) ==
            /\ state = "SHOP"
            /\ \/ handleReady(id)
               \/ \E a \in ShopInputs :
                    CanonicalAction(a) = "start_round" /\ handleShopAction(id, a)
      IN /\ (state = "SHOP" \/ state' # "SHOP") \/ (~leftReady' /\ ~rightReady')
         /\ (leftReady \/ ~leftReady') \/ signal(IdOf("left"))
         /\ (rightReady \/ ~rightReady') \/ signal(IdOf("right")) ]_vars

\* The shop phase after the wave of round MaxRound + 1 has just begun: the
\* flags are down, whatever they were during the wave.
C11_Witness ==
  /\ state = "SHOP" /\ round = MaxRound + 1 /\ shopLeft = SHOP_TIME
  /\ ~leftReady /\ ~rightReady /\ ~fault

\* C12: in every reachable state every player's hp is between 0 and maxHp,
\* whatever ticks, contact hits, enemy-bullet hits, grenade blasts, heart
\* pickups and heal purchases came before.
C12_HpWithinBounds ==
  \A id \in PlayerIds : 0 <= players[id].hp /\ players[id].hp <= players[id].maxHp

\* A player who had less hp left than one hit takes has been hit.
C12_Witness ==
  \E id \in PlayerIds :
    /\ players[id].hp = 0 /\ players[id].maxHp = PLAYER_MAX_HP
    /\ state = "GAME_OVER" /\ round = MaxRound + 1

\* C13: every tick runs to its end without a fault, so that the monsters it
\* brought to hp <= 0 (by a bullet, a grenade blast or a melee contact) are
\* out of the collection when step returns.
C13_TickCompletes ==
  [][ ~fault' \/ ~(\E dt \in DtSet : step(dt)) ]_vars

\* C19: in SHOP the ready shop action (action id start_round) and the ready
\* message have the same effect: each raises the ready flag of the player's
\* side and changes nothing else, and a step taken with both flags up ends
\* the shop phase.
C19_ReadyEntryPointsAgree ==
  [][ state # "SHOP" \/
      /\ \A id \in PlayerIds :
           /\ handleReady(id) <=> handleShopAction(id, "start_round")
           /\ ~handleReady(id) \/
                /\ leftReady' = (leftReady \/ SideOf(id) = "left")
                /\ rightReady' = (rightReady \/ SideOf(id) = "right")
                /\ UNCHANGED <<state, winner, round, waveLeft, shopLeft, players,
                               monsters, spawnWarnings, grenades, grenadeTimer,
                               goldDrops, hearts, pendingPacks, pendingBosses,
                               pendingGrenades, extraPlanLeft, extraPlanRight,
                               extraPlanSpawnedLeft, extraPlanSpawnedRight,
                               normalTarget, baseTarget, baseSpawnedLeft,
                               baseSpawnedRight, forcedBaseType, fault>>
      /\ ~(leftReady /\ rightReady) \/ state' = "PLAYING"
           \/ ~(\E dt \in DtSet : step(dt)) ]_vars

\* Both players gave the signal and the next step began round 2 before the
\* shop countdown had run out.
C19_Witness ==
  /\ state = "PLAYING" /\ round = 2 /\ waveLeft = WAVE_TIME
  /\ leftReady /\ rightReady /\ shopLeft > 0

\* C20: a send-pack, send-boss or send-grenade shop action in SHOP leaves the
\* pending packs, bosses and grenades of the buyer's own side as they were,
\* and leaves the monsters, spawn warnings and grenades of the arena as they
\* were.
C20_SendsQueueForOpponentOnly ==
  [][ LET SendActions == {a \in ShopInputs :
                            \/ IsSend(CanonicalAction(a))
                            \/ CanonicalAction(a) \in {"send_boss", "send_grenade"}}
          ownUntouched(id) ==
            /\ pendingPacks'[SideOf(id)] = pendingPacks[SideOf(id)]
            /\ pendingBosses'[SideOf(id)] = pendingBosses[SideOf(id)]
            /\ pendingGrenades'[SideOf(id)] = pendingGrenades[SideOf(id)]
      IN state # "SHOP" \/
         \A id \in PlayerIds :
           \/ ownUntouched(id) /\ UNCHANGED <<monsters, spawnWarnings, grenades>>
           \/ ~(\E a \in SendActions : handleShopAction(id, a)) ]_vars

\* Player 1 has paid for a pack of slimes: it waits in the queue of the right
\* side while the shop phase goes on.
C20_Witness ==
  /\ state = "SHOP" /\ round = MaxRound
  /\ pendingPacks["right"].slime = 1 /\ pendingPacks["left"] = NoPacks
  /\ players[1].gold = GOLD_PER_PICKUP * 40 - SEND_MOB_COST("slime")
  /\ spawnWarnings = NoneBySide /\ monsters = NoneBySide

\* C18: an action with a malformed payload changes no field of the core and
\* raises no error: a weapon choice outside the weapon set, and in SHOP a
\* shop action that is not a recognised one (a send of an unknown type, a
\* missing action, an action that is not text).
C18_MalformedPayloadIgnored ==
  [][ LET Recognised == {"upgrade_weapon", "heal", "send_boss", "send_grenade",
                         "start_round"} \cup {"send:slime", "send:fast",
                                              "send:tank", "send:spitter"}
          Malformed == {a \in ShopInputs : CanonicalAction(a) \notin Recognised}
          malformedCall ==
            \/ \E id \in PlayerIds, w \in WeaponInputs \ WeaponTypes :
                 handleWeaponChoice(id, w)
            \/ /\ state = "SHOP"
               /\ \E id \in PlayerIds, a \in Malformed : handleShopAction(id, a)
      IN (UNCHANGED coreVars /\ ~fault') \/ ~malformedCall ]_vars

\* C16: in every reachable state whose phase is PLAYING or SHOP both players
\* have chosen a weapon and their weapon type is one of the weapon set, so
\* that whoever fires has chosen a weapon.
C16_WeaponChosenFromSet ==
  state \in {"PLAYING", "SHOP"} =>
    \A id \in PlayerIds :
      players[id].weaponChosen /\ players[id].weaponType \in WeaponTypes

\* C14: after every tick the player of a half is inside that half, the
\* padding and half the player's width away from the walls and from the
\* centerline, and every monster of the half is inside the padded bounds of
\* the half; neither is ever across the centerline.
C14_InsideOwnHalf ==
  LET left == arena.side = "left"
      half == PLAYER_SIZE \div 2
      loX == IF left THEN ARENA_PADDING ELSE FENCE_X + ARENA_PADDING
      hiX == IF left THEN FENCE_X - ARENA_PADDING ELSE SCREEN_WIDTH - ARENA_PADDING
      loY == ARENA_PADDING
      hiY == SCREEN_HEIGHT - ARENA_PADDING
  IN /\ loX + half <= arena.x /\ arena.x <= hiX - half
     /\ loY + half <= arena.y /\ arena.y <= hiY - half
     /\ \A i \in 1..Len(arena.mon) :
          /\ loX <= arena.mon[i].x /\ arena.mon[i].x <= hiX
          /\ loY <= arena.mon[i].y /\ arena.mon[i].y <= hiY
     /\ IF left THEN arena.x < FENCE_X ELSE arena.x > FENCE_X
     /\ \A i \in 1..Len(arena.mon) :
          IF left THEN arena.mon[i].x < FENCE_X ELSE arena.mon[i].x > FENCE_X

\* The player has run into the corner at the centerline and the monster,
\* having followed, stands at its own limit, its radius inside the padding.
C14_Witness ==
  /\ arena.side = "left" /\ arena.ticks > 0
  /\ arena.x = FENCE_X - ARENA_PADDING - PLAYER_SIZE \div 2
  /\ arena.y = SCREEN_HEIGHT - ARENA_PADDING - PLAYER_SIZE \div 2
  /\ Len(arena.mon) = 1
  /\ arena.mon[1].x = FENCE_X - ARENA_PADDING - arena.mon[1].radius

\* C15: a tick that begins without a living monster in the player's half
\* creates no bullet of that player, a player with hp 0 creates none, and no
\* tick creates more than one.
C15_FiresOnlyAtATarget ==
  /\ combat.fired <= 1
  /\ combat.targets = 0 => combat.fired = 0
  /\ combat.hp = 0 => combat.fired = 0

\* A living player with a monster in the half has fired in a tick, and the
\* bullet is in flight.
C15_Witness ==
  /\ combat.fired = 1 /\ combat.targets > 0 /\ combat.hp > 0
  /\ Len(combat.bullets) > 0

\* C17: a bullet created with pierce N has damaged at most N + 1 monsters
\* when it is removed, and a bullet created with pierce 0 is removed in the
\* tick in which it damages a monster, having damaged exactly one.
C17_PierceBoundsDamage ==
  /\ \A k \in 1..Len(combat.bullets) :
       /\ Cardinality(combat.bullets[k].damaged) <= combat.bullets[k].pierce0 + 1
       /\ combat.bullets[k].pierce0 = 0 => combat.bullets[k].damaged = {}
  /\ \A k \in 1..Len(combat.gone) :
       Cardinality(combat.gone[k].damaged) <= combat.gone[k].pierce0 + 1

\* C27: a close during PLAYING puts that player's hp to 0; while the phase is
\* PLAYING with a player at hp 0, nothing but a tick changes the phase or that
\* hp (the messages of the other client are refused), and a tick that runs to
\* its end ends in GAME_OVER with the side of the surviving opponent as
\* winner, or a draw when nobody survives it.
C27_CloseWhilePlayingResolves ==
  [][ LET fallen == {id \in PlayerIds : players[id].hp = 0}
          survivors == {id \in PlayerIds : players'[id].hp > 0}
      IN /\ \A id \in PlayerIds :
              (state # "PLAYING" \/ last' # "closed")
                \/ ~wsClose(id) \/ (players'[id].hp = 0 /\ state' = "PLAYING")
         /\ (state # "PLAYING" \/ fallen = {})
              \/ /\ \A id \in fallen : players'[id].hp = 0
                 /\ IF ~fault' /\ \E dt \in DtSet : step(dt)
                    THEN /\ state' = "GAME_OVER"
                         /\ survivors \cap fallen = {}
                         /\ winner' = (IF survivors = {} THEN "draw"
                                       ELSE SideOf(CHOOSE id \in survivors : TRUE))
                    ELSE state' = "PLAYING" /\ winner' = winner ]_vars

\* The match of a player who left during the first wave has been decided for
\* the opponent (in Spec nobody is hit, so hp 0 comes from a close).
C27_Witness ==
  /\ state = "GAME_OVER" /\ winner = "right" /\ round = 1
  /\ players[1].hp = 0 /\ players[2].hp = PLAYER_MAX_HP

\* C28: a close during WEAPON_SELECT clears that player's selection and leaves
\* the phase; a selection comes back only by a weapon choice registered for
\* that player, and the phase leaves WEAPON_SELECT only in a state in which
\* both players have a selection.
C28_CloseClearsSelection ==
  [][ \A id \in PlayerIds :
        /\ (state # "WEAPON_SELECT" \/ last' # "closed")
             \/ ~wsClose(id)
             \/ /\ ~players'[id].weaponChosen
                /\ players'[id].weaponType = "null"
                /\ state' = "WEAPON_SELECT"
        /\ (state # "WEAPON_SELECT" \/ players[id].weaponChosen
              \/ ~players'[id].weaponChosen \/ state' # "WEAPON_SELECT")
             \/ \E w \in WeaponInputs : handleWeaponChoice(id, w)
        /\ (state # "WEAPON_SELECT" \/ state' = "WEAPON_SELECT")
             \/ players[id].weaponChosen ]_vars

\* Player 1 has left during weapon selection while player 2 has chosen: the
\* match waits.
C28_Witness ==
  /\ state = "WEAPON_SELECT" /\ last = "closed"
  /\ players[2].weaponChosen
  /\ ~players[1].weaponChosen /\ players[1].weaponType = "null"

\* C21: at every SHOP -> PLAYING transition each side's reinforcement plan
\* holds one entry per boss queued for that side and, per queued pack, 4
\* slimes, 3 fast, 2 tanks or 2 spitters and nothing else; the side gets as
\* many grenades as were queued for it; and afterwards the pack, boss and
\* grenade queues of both sides are empty.
C21_QueuesBecomeThePlan ==
  [][ (state = "SHOP" /\ state' = "PLAYING") =>
        \A s \in Sides :
          LET plan == IF s = "left" THEN extraPlanLeft' ELSE extraPlanRight'
              size(t) == CASE t = "slime" -> 4 [] t = "fast" -> 3
                           [] t = "tank" -> 2 [] t = "spitter" -> 2
              count(t) == Cardinality({i \in 1..Len(plan) : plan[i] = t})
              bosses == {i \in 1..Len(plan) : plan[i] \notin MobTypes}
          IN /\ \A t \in MobTypes : count(t) = size(t) * pendingPacks[s][t]
             /\ Cardinality(bosses) = Len(pendingBosses[s])
             /\ \A i \in bosses : plan[i] = pendingBosses[s][i]
             /\ grenades'[s] = pendingGrenades[s]
             /\ pendingGrenades'[s] = 0
             /\ pendingBosses'[s] = <<>>
             /\ pendingPacks'[s] = NoPacks ]_vars

\* A wave has begun for which the left player had bought a boss and a pack
\* of tanks.
C21_Witness ==
  /\ state = "PLAYING" /\ round = MaxRound + 1
  /\ extraPlanRight = <<"boss1", "tank", "tank">>
  /\ Queued = 0

\* C23: no player has bought more than 2 grenades in the current shop phase
\* and no side has more than 2 grenades queued or deployed; a send_grenade of
\* a player who has bought 2 changes neither gold nor queue, whatever gold
\* the player has; and the count of every player is 0 when a shop phase
\* begins.
C23_TwoGrenadesPerShop ==
  [][ /\ \A id \in PlayerIds :
           /\ players'[id].grenadesBoughtThisRound <= 2
           /\ (state # "SHOP" \/ players[id].grenadesBoughtThisRound < 2)
                \/ ~handleShopAction(id, "send_grenade")
                \/ UNCHANGED <<players, pendingGrenades>>
           /\ (state = "SHOP" \/ state' # "SHOP")
                \/ players'[id].grenadesBoughtThisRound = 0
      /\ \A s \in Sides : pendingGrenades'[s] <= 2 /\ grenades'[s] <= 2 ]_vars

\* The left player has bought one grenade in the shop phase before and two in
\* this one, and has the gold for one more.
C23_Witness ==
  /\ state = "SHOP" /\ round = MaxRound + 1
  /\ players[1].grenadesBoughtThisRound = 2
  /\ pendingGrenades["right"] = 2
  /\ players[1].gold = GOLD_PER_PICKUP * 40 - 3 * GRENADE_COST
  /\ GoldGE(players[1], GRENADE_COST)

\* C24: every player's weapon level is between 1 and 5; an upgrade that is
\* paid for raises the level by one if it is below 5 and leaves it at 5
\* otherwise; and a weapon choice would put the level to 1.
C24_WeaponLevelWithinCap ==
  [][ \A id \in PlayerIds :
        /\ 1 <= players'[id].weaponLevel /\ players'[id].weaponLevel <= 5
        /\ \A w \in WeaponTypes : setWeapon(players'[id], w).weaponLevel = 1
        /\ (state # "SHOP" \/ ~GoldGE(players[id], UPGRADE_COST))
             \/ ~handleShopAction(id, "upgrade_weapon")
             \/ players'[id].weaponLevel =
                  (IF players[id].weaponLevel < 5 THEN players[id].weaponLevel + 1
                   ELSE 5) ]_vars

\* The left player has gone from level 4 to 5 and has bought one more
\* upgrade at level 5.
C24_Witness ==
  /\ state = "SHOP"
  /\ players[1].weaponLevel = MAX_WEAPON_LEVEL
  /\ players[1].gold = GOLD_PER_PICKUP * 40 - 2 * UPGRADE_COST

\* C25: normalTarget is the quota of the latest non-boss wave: in a wave or a
\* shop phase of a non-boss round it equals baseTarget, and it changes only
\* when a wave starts.  A wave that starts after a shop phase has, in a boss
\* round, the quota 1 with the boss type of tier 1 + floor((round - 1) / 10)
\* and leaves normalTarget alone; in any other round its quota is greater
\* than normalTarget was, that is, than the quota of the latest non-boss wave
\* before it, boss round in between or not.
C25_QuotaGrowsPastBossRounds ==
  [][ LET starts == state # "PLAYING" /\ state' = "PLAYING"
          bossType == IF round' <= 10 THEN "boss1"
                      ELSE IF round' <= 20 THEN "boss2" ELSE "boss3"
      IN /\ (state' \in {"PLAYING", "SHOP"} /\ round' % 5 # 0)
              => baseTarget' = normalTarget'
         /\ normalTarget' # normalTarget => starts
         /\ (starts /\ state = "SHOP") =>
              IF round' % 5 = 0
              THEN /\ baseTarget' = 1
                   /\ forcedBaseType' = bossType
                   /\ normalTarget' = normalTarget
              ELSE /\ baseTarget' > normalTarget
                   /\ forcedBaseType' = "null" ]_vars

\* The wave of round 6 has begun with a quota above the one of round 4.
C25_Witness ==
  /\ state = "PLAYING" /\ round = 6 /\ waveLeft = WAVE_TIME
  /\ baseTarget > normalTargetAfter(4) /\ normalTargetAfter(4) > normalTargetAfter(3)

\* C26: a step in WEAPON_SELECT, SHOP or GAME_OVER leaves the position of the
\* player where it is, whatever keys are passed to it, and in these phases
\* the game loop passes no key as down, whatever the clients have sent.
C26_KeysIgnoredOutsidePlaying ==
  [][ state # "PLAYING" =>
        /\ arena'.x = arena.x /\ arena'.y = arena.y
        /\ \A inp \in KeyStates :
             LET passed == effectiveInputs(state, inp)
             IN ~passed.up /\ ~passed.down /\ ~passed.left /\ ~passed.right ]_vars

\* A step has run in GAME_OVER with the player away from the start position.
C26_Witness ==
  /\ state = "GAME_OVER" /\ last = "idle"
  /\ arena.x # ArenaStart("left", TRUE).x
  /\ arena.ticks < MaxArenaTicks

\* C22 as stated: when a wave has ended, every entry of each side's
\* reinforcement plan has been given a spawn warning and has become a monster
\* of that side.
C22_PlanEntriesArrive ==
  wave.phase = "SHOP" =>
    \A s \in Sides :
      /\ wave.extraSpawned[s] = Len(wave.plan[s])
      /\ wave.arrived[s] = Len(wave.plan[s])

\* C22 amended: the entries of a side's reinforcement plan are taken in
\* order, one per tick at most.  The next entry gets its spawn warning, of
\* the entry's type and on that side, exactly in a tick that does not end the
\* wave, in which the side's reinforcement cooldown runs out and the monster
\* collection holds fewer than MAX_MONSTERS monsters; every entry that has
\* got a warning has become a monster of that side or still has its warning
\* pending.  Entries whose turn has not come when the wave ends get none.
C22_EntriesArriveInTurn ==
  [][ \A s \in Sides :
        LET n == wave.extraSpawned[s]
            pending == SelectSeq(wave'.warnings, LAMBDA d : d.side = s /\ d.extra)
            turn == /\ wave.phase = "PLAYING" /\ wave'.phase = "PLAYING"
                    /\ n < Len(wave.plan[s])
                    /\ wave.extraCd[s] <= ServerDt
                    /\ monsterCount(wave) < MAX_MONSTERS
        IN /\ wave'.extraSpawned[s] = (IF turn THEN n + 1 ELSE n)
           /\ turn => \E i \in 1..Len(pending) :
                        /\ pending[i].type = wave.plan[s][n + 1]
                        /\ pending[i].shown = ServerDt
           /\ wave'.arrived[s] >= wave.arrived[s]
           /\ wave'.arrived[s] + Len(pending) = wave'.extraSpawned[s]
           /\ wave'.plan = wave.plan ]_vars

\* A wave has ended in which the four slimes of one pack have all become
\* monsters of the right side.
C22_Witness ==
  /\ wave.phase = "SHOP"
  /\ Len(wave.plan["right"]) = SEND_MOB_AMOUNT("slime")
  /\ wave.arrived["right"] = Len(wave.plan["right"])

\* C29: the monster collection never holds more than MAX_MONSTERS (70)
\* monsters, baseline and reinforcement spawns together.
C29_MonstersWithinCap == monsterCount(wave) <= MAX_MONSTERS

\* C30: every monster a tick creates is made from a spawn warning whose
\* countdown has reached zero in that tick, after the warning has been in the
\* collection for the whole telegraph time of PLAYING ticks, and it has the
\* warning's side, type and place; that warning has left the collection, no
\* two monsters come from one warning, and the monsters there are or were are
\* as many as the warnings that have been converted.
C30_MonstersComeFromDueWarnings ==
  /\ \A i \in 1..Len(wave.born) :
       LET m == wave.born[i] IN
       /\ m.warn.timer <= 0
       /\ m.warn.shown >= Fine(TELEGRAPH)
       /\ m.side = m.warn.side /\ m.type = m.warn.type
       /\ m.x = m.warn.x /\ m.y = m.warn.y
       /\ m.x \in SpawnXs(m.side) /\ m.y \in SpawnYs
       /\ m.warn.id \in wave.converted
       /\ \A j \in 1..Len(wave.warnings) : wave.warnings[j].id # m.warn.id
       /\ \A k \in 1..Len(wave.born) : k # i => wave.born[k].warn.id # m.warn.id
  /\ \A j \in 1..Len(wave.warnings) :
       wave.warnings[j].timer > 0 /\ wave.warnings[j].id \notin wave.converted
  /\ monsterCount(wave) + wave.kills = Cardinality(wave.converted)

\* A tick has just turned the warning of a plan entry into a monster of the
\* right side.
C30_Witness ==
  /\ wave.phase = "PLAYING"
  /\ \E i \in 1..Len(wave.born) :
       wave.born[i].warn.extra /\ wave.born[i].side = "right"
  /\ wave.monsters["right"] > 0

\* C36: winner is "left", "right" or "draw" exactly when the phase is
\* GAME_OVER; in WEAPON_SELECT, PLAYING and SHOP it is unset.
C36_WinnerIffGameOver ==
  /\ winner \in {"left", "right", "draw", "null"}
  /\ (winner # "null") <=> (state = "GAME_OVER")

\* Both players have left during a wave: the match has ended in a draw.
C36_Witness ==
  /\ state = "GAME_OVER" /\ winner = "draw"
  /\ \A id \in PlayerIds : players[id].hp = 0

C39_UpgradeAtMaxIsFree ==
  [][ \A id \in PlayerIds :
        (/\ state = "SHOP"
         /\ players[id].weaponLevel = MAX_WEAPON_LEVEL
         /\ handleShopAction(id, "upgrade_weapon"))
          => players'[id] = players[id] ]_vars

\* C31: the baseline warnings a side has been given in the wave are at most
\* baseTarget; a tick gives a side at most one, and none once the side's
\* count has reached the target; the tick that ends the wave creates no
\* warning, baseline or reinforcement, and after it none is created.
C31_BaselineStopsAtTarget ==
  [][ \A s \in Sides :
        LET fresh == SelectSeq(wave'.warnings,
                               LAMBDA d : d.id >= wave.nextWarnId /\ d.side = s)
            base == Len(SelectSeq(fresh, LAMBDA d : ~d.extra))
        IN /\ wave'.baseSpawned[s] <= wave.baseTarget
           /\ wave'.baseTarget = wave.baseTarget
           /\ base = wave'.baseSpawned[s] - wave.baseSpawned[s]
           /\ base <= 1
           /\ wave.baseSpawned[s] = wave.baseTarget => base = 0
           /\ (wave'.phase = "SHOP" \/ wave.phase = "SHOP") =>
                (fresh = <<>> /\ wave'.nextWarnId = wave.nextWarnId) ]_vars

\* The first wave has ended with the baseline target reached on the left.
C31_Witness ==
  /\ wave.phase = "SHOP" /\ wave.round = 1
  /\ wave.baseSpawned["left"] = wave.baseTarget
  /\ wave.baseTarget = ScaleTarget(BASE_TARGET)

\* C38: right after a step that has brought the phase to PLAYING the
\* monster, gold-drop, heart, potion and spawn-warning collections are empty
\* and the grenades are those of the pending queue.
C38_WaveStartsEmpty ==
  [][ (state # "PLAYING" /\ state' = "PLAYING") =>
        /\ monsters' = NoneBySide
        /\ spawnWarnings' = NoneBySide
        /\ goldDrops' = NoneBySide
        /\ hearts' = NoneBySide
        /\ greenPotions' = NoneBySide
        /\ grenades' = pendingGrenades ]_vars

\* C40: with step called again and again with a positive dt, and whatever
\* the clients send in between, a wave in progress ends, in SHOP or in
\* GAME_OVER, and a shop phase in progress ends in PLAYING.
C40_PhasesEnd ==
  /\ (clock.state = "PLAYING") ~> (clock.state \in {"SHOP", "GAME_OVER"})
  /\ (clock.state = "SHOP") ~> (clock.state = "PLAYING")

\* A wave has ended, the shop countdown after it has run out and the next
\* wave has begun.
C40_Witness ==
  /\ clock.state = "PLAYING" /\ clock.waveLeft = WAVE_TIME /\ clock.shopLeft = 0
  /\ clock.alive = BySide(TRUE, TRUE)

\* C34: an enemy bullet damages only a living player of its own side, a
\* bullet that has hit is gone from the collection after that tick, and
\* after every tick no enemy bullet of the collection is past the fence, on
\* the other side's half.
C34_EnemyBulletsKeepToTheirSide ==
  /\ \A i \in 1..Len(field.hits) :
       /\ field.hits[i].on = field.hits[i].from
       /\ field.hits[i].hp > 0
       /\ \A k \in 1..Len(field.enemyBullets) :
            field.enemyBullets[k].id # field.hits[i].bullet
  /\ field.ticks > 0 =>
       \A k \in 1..Len(field.enemyBullets) :
         IF field.enemyBullets[k].side = "left"
         THEN field.enemyBullets[k].x <= FENCE_X
         ELSE field.enemyBullets[k].x >= FENCE_X

\* A projectile of the right half has hit the player of the right half, who
\* has lost its damage, and is gone.
C34_Witness ==
  /\ Len(field.hits) = 1 /\ field.hits[1].on = "right"
  /\ field.players["right"].hp = Pts(PLAYER_MAX_HP - SPITTER_PROJECTILE_DAMAGE)
  /\ field.players["left"].hp = Pts(PLAYER_MAX_HP)
  /\ field.enemyBullets = <<>>

====
